---- MODULE Spec2Model ----
(***************************************************************************)
(* Model of the oblivious-tree structure search of                         *)
(* catboost/cuda/methods/oblivious_tree_structure_searcher.h:              *)
(* TObliviousTreeStructureSearcher (AddTask, SetTarget, Fit) and           *)
(* TTreeCtrDataSetVisitor (Accept, UpdateBestSplit, CacheCtrBorders,       *)
(* CreateBestSplitProperties, GetBestSplitBits).                           *)
(*                                                                         *)
(* The main thread runs Fit statement by statement (pc).  While            *)
(* VisitPermutationDataSets runs, one worker per device calls Accept on    *)
(* the data sets of its device; workers interleave at every access to      *)
(* shared state.  TLC integers are 32 bit signed: static_cast<ui32>(-1) is *)
(* represented by 2^31 - 1, it is only compared, never added to.           *)
(***************************************************************************)
EXTENDS Integers, Sequences, FiniteSets, TLC

\* ------------------------------------------------------------------ bounds

\* the largest TreeConfig.GetMaxDepth() explored
MaxDepth == 2
\* scores reported by the score helpers are 1..MaxScore (lower is better)
MaxScore == 2
\* number of AddTask calls explored
MaxTasks == 1

\* --------------------------------------------------------------- constants

\* std::numeric_limits<double>::infinity(), also the Score of a default split
Infinity == 1000
\* static_cast<ui32>(-1): the FeatureId of a default TBestSplitProperties
NoFeature == 2147483647
\* BestBin(-1) stored in a ui32
NoBin == 2147483647
\* the single-byte bin budget of EnsureHasBestProps
MaxBinId == 255
\* TreeConfig.GetMaxCtrComplexityForBordersCaching()
MaxCtrComplexityForBordersCaching == 2

\* NCudaLib::GetCudaManager().GetDeviceCount() is 2: the device ids
Devices == {0, 1}
\* the values ctrDataSetsHelper.GetUsedPermutations().size() takes
UsedPermutationCounts == {0, 1}
Scores == 1 .. MaxScore
\* the values TreeConfig.GetMaxDepth() takes
DepthLimits == 1 .. MaxDepth
\* TAdaptiveLock: free, or held by the worker of a device
Free == -1

\* ------------------------------------------------------- features and CTRs

\* static features of the data set: 0 is a float feature (dense helper),
\* 1 a one-hot feature (binary helper), 2 a precomputed target CTR
DenseFeature == 0
BinaryFeature == 1
TargetCtrFeature == 2
\* ids FeaturesManager gives to tree CTRs start after the static features
FirstTreeCtrId == 10

\* The tree CTRs the data sets of one depth can hold.  CTR 0 is a default
\* constructed TCtr (BestCtr before any candidate was recorded).
NoCtr == 0
\* CTRs 1 and 3 are on plain tensors of one categorical feature each, CTR 2
\* on a tensor that holds a split of the tree.
Ctrs == {1, 2, 3}
\* ctr.FeatureTensor.GetSplits().size()
CtrSplits(c) == IF c = 2 THEN 1 ELSE 0
\* ctr.FeatureTensor.GetCatFeatures().size()
CtrCatFeatures(c) == 1
\* number of borders of the CTR's binarization in its data set
BorderCount(c) == IF c = 2 THEN 300 ELSE 1
\* TTreeCtrDataSet::ReadBorders(featureId): the borders of one CTR
NoBorders == [ctr |-> NoCtr, size |-> 0]
ReadBorders(c) == [ctr |-> c, size |-> BorderCount(c)]
\* bins a score helper can report for a feature with that many borders
CandidateBins(c) == IF BorderCount(c) > 256 THEN {0, 256} ELSE 0 .. (BorderCount(c) - 1)

\* The data sets VisitPermutationDataSets hands to the visitor, in
\* enumeration order; data sets 1 and 3 live on device 0, data set 2 on
\* device 1.
DataSets == {1, 2, 3}
DataSetDevice(ds) == IF ds = 2 THEN 1 ELSE 0
\* ctrDataSet.GetCtrs(); the candidate's FeatureId indexes it (from 1 here)
DataSetCtrs(ds) == IF ds = 1 THEN <<1>> ELSE IF ds = 2 THEN <<1, 2>> ELSE <<3>>

RECURSIVE SeqOfSet(_, _)
\* the elements of a set of numbers below or at n, ascending
SeqOfSet(S, n) ==
    IF n < 0 THEN <<>>
    ELSE IF n \in S THEN Append(SeqOfSet(S, n - 1), n) ELSE SeqOfSet(S, n - 1)

\* the data sets one device's worker visits, in enumeration order
DeviceDataSets(d) == SeqOfSet({ds \in DataSets : DataSetDevice(ds) = d}, 3)

\* ------------------------------------------------------------------- state

VARIABLES
    \* TObliviousTreeStructureSearcher
    FoldBasedTasks,        \* yvector<TOptimizationTask>: the task ids, in insertion order
    SingleTaskTarget,      \* THolder<TTarget>: TRUE when set, FALSE when nullptr
    \* the thread that runs the searcher
    pc,                    \* position of the main thread
    error,                 \* message of the exception that ended the last call, "" if none
    depth,                 \* loop variable of Fit
    result,                \* TObliviousTreeStructure::Splits
    bestSplitProp,         \* TBestSplitProperties of the current depth
    bestSplit,             \* TBinarySplit of the current depth
    isTreeCtrSplit,
    treeCtrSplitBits,
    outstanding,           \* device work submitted and not yet waited for
    ctrDataSetsHelperPtr,  \* TRUE once the TTreeCtrDataSetsHelper exists
    usedPermutations,      \* ctrDataSetsHelper.GetUsedPermutations().size()
    permutation,           \* index of the permutation being visited
    \* TBinarizedFeaturesManager
    treeCtrsEnabled,       \* IsTreeCtrsEnabled()
    registry,              \* per CTR: known, id, borders
    adding,                \* the CTR an AddCtr is in the middle of storing, or NoCtr
    \* TTreeCtrDataSetVisitor
    Lock,
    BestScore,
    BestBin,
    BestDevice,
    BestCtr,
    BestBorders,
    BestSplits,
    \* the per-device workers of VisitPermutationDataSets
    wpc,                   \* position of each worker inside Accept
    wqueue,                \* data sets the worker still has to visit (head: current)
    wentry,                \* CacheCtrBorders: index of the bordersMap entry
    wcand,                 \* the candidate ReadAndRemapOptimalSplit returned
    \* observation of the run (never read by the program)
    reported,              \* the lowest score among the candidates reported at this depth
    seeded,                \* the score the visitor was seeded with (SetBestScore)
    lowestCompleted,       \* the lowest of that score and the scores of the candidates
                           \* whose UpdateBestSplit comparison has been made
    inOrder,               \* the best the visitor holds when the data sets are visited in order
    addCtrCalls,           \* per CTR, how many times AddCtr was invoked for it
    counters,              \* calls made by Fit: submit, addSplit, subsetsSplit, ctrAddSplit, cacheBins
    broke,                 \* Fit left the loop through the early-stop break
    \* the pieces of Fit that are followed on their own data
    sliceSizes,            \* GetObjectsSlice().Size() of the targets' indices
    subsets,               \* TOptimizationSubsets
    Seeds,                 \* TTreeCtrDataSetVisitor::Seeds, one ui64 per device
    baseSeed,              \* the seed SetScoreStdDevAndSeed was given
    tensorHash,            \* ctrDataSet.GetBaseTensor().GetHash() of every data set
    taskSeed,              \* the taskSeed Accept computed for a data set, if it has
    \* TObliviousTreeLearnerOptions
    maxDepth,              \* TreeConfig.GetMaxDepth()
    \* the document bins
    docBins,               \* the splits treeUpdater.AddSplit has applied to docBins, in order
    cached,                \* the CacheBinsForModel calls: the tree and the bins of each
    \* the observation orders
    hasTargetCtrs,         \* DataSet.GetTargetCtrs().GetHostFeatures().size() > 0
    observationIndices,    \* who wrote the buffer last, from which subsets.Indices
    directObservationIndices,
    handed,                \* the buffers the last SubmitCompute calls of Fit were given
    \* the search target
    bootstrapTestOnly,     \* TreeConfig.IsBootstrapTestOnly()
    RandomStrength,        \* double RandomStrength
    ScoreStdDev,           \* double ScoreStdDev, kept as the operands it was computed from
    weights,               \* GetWeights() of the single target and of every task's targets
    target,                \* the TL2Target BuildTreeSearchTarget returned last
    gradient,              \* what GradientAtZero wrote for that target
    bootstrap,             \* what BootstrapedWeights returned for that target
    \* Train of mode_fit.cpp
    boostingOptions,       \* IsCalcScores(), UseBestModel(), GetAutoStopPval(), GetIterationCount()
    testData,              \* const TDataProvider* test: TRUE when not nullptr
    learnPrinter,          \* THolder<TMetricPrinter>: TRUE when set
    testPrinter,           \* THolder<TMetricPrinter>: TRUE when set
    overfitDetector,       \* THolder<IOverfittingDetector>: TRUE when set
    boosting,              \* the listeners and detectors the boosting was given
    model,                 \* the model boosting.Run() returned, as Train holds it
    \* TTargetClassifier
    Borders,               \* yvector<float> Borders
    classified             \* the last GetTargetClass call: its target and its result

searcherVars == <<FoldBasedTasks, SingleTaskTarget>>
fitVars == <<depth, result, bestSplitProp, bestSplit, isTreeCtrSplit, treeCtrSplitBits,
             outstanding, ctrDataSetsHelperPtr, usedPermutations, permutation, counters, broke>>
managerVars == <<treeCtrsEnabled, registry, adding>>
trackerVars == <<BestScore, BestBin, BestDevice, BestCtr>>
visitorVars == <<Lock, BestScore, BestBin, BestDevice, BestCtr, BestBorders, BestSplits>>
workerVars == <<wpc, wqueue, wentry, wcand>>
observerVars == <<reported, inOrder, addCtrCalls, seeded, lowestCompleted>>
subsetVars == <<sliceSizes, subsets>>
seedVars == <<Seeds, baseSeed, tensorHash, taskSeed>>
configVars == <<maxDepth, bootstrapTestOnly>>
targetVars == <<RandomStrength, ScoreStdDev, weights, target, gradient, bootstrap>>
updaterVars == <<docBins, cached>>
trainVars == <<boostingOptions, testData, learnPrinter, testPrinter, overfitDetector,
               boosting, model>>
classifierVars == <<Borders, classified>>
appVars == <<trainVars, classifierVars>>
inputVars == <<subsetVars, seedVars, configVars, targetVars, appVars>>
bufferVars == <<hasTargetCtrs, observationIndices, directObservationIndices, handed>>
dataVars == <<inputVars, updaterVars, bufferVars>>
mainVars == <<searcherVars, pc, error, fitVars, managerVars, visitorVars, workerVars, observerVars>>
vars == <<mainVars, dataVars>>

\* default constructed values
NoSplitProp == [FeatureId |-> NoFeature, BinId |-> 0, Score |-> Infinity]
NoSplit == [FeatureId |-> 0, BinIdx |-> 0, SplitType |-> "TakeGreater"]
NoBits == [ctr |-> NoCtr, bin |-> 0, size |-> 0]
NoCand == [FeatureId |-> 0, BinId |-> 0, Score |-> Infinity]
Unregistered == [known |-> FALSE, id |-> 0, borders |-> NoBorders]
\* no data set has improved on the seeded score yet
NoOrdered == [Score |-> Infinity, perm |-> 0, ds |-> 0, ctr |-> NoCtr, bin |-> 0]
NoCounters == [submit |-> 0, addSplit |-> 0, subsetsSplit |-> 0, ctrAddSplit |-> 0, cacheBins |-> 0]

\* --------------------------------------------- TBinarizedFeaturesManager

\* FeaturesManager.IsKnown(ctr)
IsKnown(reg, c) == c \in Ctrs /\ reg[c].known

\* FeaturesManager.IsKnown(ctr) called without the lock.  While another
\* thread is inside AddCtr the read races with the write of the registry:
\* the build may answer either way.
RacyIsKnown(reg, inFlight, c) ==
    IF inFlight # NoCtr THEN BOOLEAN ELSE {IsKnown(reg, c)}

\* FeaturesManager.AddCtr(ctr, borders) for a CTR that is not known: the CTR
\* gets the next free feature id and its borders are stored with it
AddCtr(reg, c, borders) ==
    [reg EXCEPT ![c] = [known |-> TRUE,
                        id |-> FirstTreeCtrId + Cardinality({k \in Ctrs : reg[k].known}),
                        borders |-> borders]]

\* FeaturesManager.GetId(ctr)
GetId(reg, c) == reg[c].id

\* FeaturesManager.GetBorders(featureId) of a registered tree CTR
GetBorders(reg, id) ==
    IF \E c \in Ctrs : reg[c].known /\ reg[c].id = id
    THEN reg[CHOOSE c \in Ctrs : reg[c].known /\ reg[c].id = id].borders
    ELSE NoBorders

\* FeaturesManager.IsCat(featureId): the one-hot feature is categorical
IsCat(featureId) == featureId = BinaryFeature

\* ----------------------------------------------------------- pure helpers

\* operator< of TBestSplitProperties: lower score, then feature id, then bin
SplitLess(a, b) ==
    \/ a.Score < b.Score
    \/ a.Score = b.Score /\ a.FeatureId < b.FeatureId
    \/ a.Score = b.Score /\ a.FeatureId = b.FeatureId /\ a.BinId < b.BinId

\* TakeBest(first, second): the second only when it is better
TakeBest2(a, b) == IF SplitLess(b, a) THEN b ELSE a

\* TakeBest(first, second, third)
TakeBest(a, b, c) == TakeBest2(a, TakeBest2(b, c))

\* TObliviousTreeStructure::HasSplit(candidate)
HasSplit(splits, candidate) == \E i \in 1 .. Len(splits) : splits[i] = candidate

\* TTreeCtrDataSetVisitor::IsNeedToCacheBorders(ctr)
IsNeedToCacheBorders(c) ==
    CtrSplits(c) = 0 /\ CtrCatFeatures(c) < MaxCtrComplexityForBordersCaching

RECURSIVE FilterSeq(_, _)
\* GetCtrsBordersToCacheIds followed by ReadBorders(cacheIds): the CTRs of
\* the data set whose borders are cached.  The code iterates a ymap keyed
\* by TCtr; GetCtrs() of the model's data sets is in key order already.
FilterSeq(ctrs, i) ==
    IF i > Len(ctrs) THEN <<>>
    ELSE IF IsNeedToCacheBorders(ctrs[i]) THEN <<ctrs[i]>> \o FilterSeq(ctrs, i + 1)
    ELSE FilterSeq(ctrs, i + 1)

\* the bordersMap CacheCtrBorders iterates for one data set
GetCtrsBordersToCacheIds(ds) == FilterSeq(DataSetCtrs(ds), 1)

\* what a static score helper can return from ReadAndRemapOptimalSplit: the
\* default split when it has no candidate, or one of its features' bins
HelperResults(feature, bins) ==
    {NoSplitProp} \cup [FeatureId : {feature}, BinId : bins, Score : Scores]

\* what the score helper of a tree-CTR data set can return
DataSetResults(ds) ==
    UNION {[FeatureId : {i}, BinId : CandidateBins(DataSetCtrs(ds)[i]), Score : Scores] :
               i \in 1 .. Len(DataSetCtrs(ds))}

\* TTreeCtrDataSetVisitor::HasSplit()
VisitorHasSplit == BestDevice >= 0

\* EnsureHasBestProps without the bin budget
EnsureHasBestPropsNoBinCheck ==
    IF ~(BestDevice >= 0) THEN "Error: no good split in visitor found" ELSE ""

\* TTreeCtrDataSetVisitor::EnsureHasBestProps(): "" when both checks pass
EnsureHasBestProps ==
    IF ~(BestDevice >= 0) THEN "Error: no good split in visitor found"
    ELSE IF ~(BestBin <= MaxBinId) THEN "BestBin <= 255"
    ELSE ""

\* ----------------------------------------------------------------- Init

\* no target sizes drawn, no subsets created
NoSizes == [single |-> 0, learn |-> <<>>, test |-> <<>>]
NoSubsets == [Bins |-> <<>>, Indices |-> <<>>, Partitions |-> <<>>, MaxPartCount |-> 0,
              CurrentDepth |-> 0, FoldCount |-> 0, FoldBits |-> 0]
\* a ui64 as four 16-bit limbs, lowest first
Limb == 65536
Zero64 == <<0, 0, 0, 0>>
Max64 == <<Limb - 1, Limb - 1, Limb - 1, Limb - 1>>
\* no taskSeed computed
NoSeed == <<>>
\* Seeds(GetDeviceCount(), 0)
SeedsConstructed == Seeds = [d \in Devices |-> Zero64]
SeedsUnused ==
    /\ SeedsConstructed
    /\ baseSeed = Zero64
    /\ tensorHash = [ds \in DataSets |-> Zero64]
    /\ taskSeed = [ds \in DataSets |-> NoSeed]
\* docBins of a tree without splits, nothing handed to the model cache
UpdaterUnused == docBins = <<>> /\ cached = <<>>
\* a default constructed TMirrorBuffer
NoBuffer == [by |-> "none", indices |-> 0]
\* no SubmitCompute made
NothingHanded == [bin |-> NoBuffer, dense |-> NoBuffer, ctr |-> NoBuffer]
BuffersUnused ==
    /\ observationIndices = NoBuffer
    /\ directObservationIndices = NoBuffer
    /\ handed = NothingHanded
\* double ScoreStdDev = 0.0
ZeroStdDev == [strength |-> 0, sum2 |-> 0, count |-> 0]
\* RandomStrength * sqrt(sum2 / (count + 1e-100)) is 0.0
IsZeroStdDev(dev) == dev.strength = 0 \/ dev.sum2 = 0
\* no weights drawn
NoWeights == [single |-> <<>>, learn |-> <<>>, test |-> <<>>]
\* BuildTreeSearchTarget not called
NoTarget == [WeightedTarget |-> <<>>, Weights |-> <<>>]
TargetUnused ==
    /\ RandomStrength = 0
    /\ ScoreStdDev = ZeroStdDev
    /\ weights = NoWeights
    /\ target = NoTarget
    /\ gradient = <<>>
    /\ bootstrap = <<>>
\* Train not entered
NoOptions == [IsCalcScores |-> FALSE, UseBestModel |-> FALSE, AutoStopPval |-> 0,
              IterationCount |-> 0]
NoBoosting == [learnListeners |-> <<>>, testListeners |-> <<>>, detectors |-> <<>>,
               odDetector |-> FALSE, bestIteration |-> 0]
NoModel == [trees |-> 0, shrunk |-> FALSE, till |-> 0]
TrainUnused ==
    /\ boostingOptions = NoOptions
    /\ testData = FALSE
    /\ learnPrinter = FALSE
    /\ testPrinter = FALSE
    /\ overfitDetector = FALSE
    /\ boosting = NoBoosting
    /\ model = NoModel
\* a float or a double that is not a number, and one that is
NaN == [nan |-> TRUE, value |-> 0]
Num(v) == [nan |-> FALSE, value |-> v]
\* no GetTargetClass call made
NotClassified == [target |-> NaN, resClass |-> -1]
ClassifierUnused == Borders = <<>> /\ classified = NotClassified
AppUnused == TrainUnused /\ ClassifierUnused
DataUnused ==
    /\ sliceSizes = NoSizes /\ subsets = NoSubsets /\ SeedsUnused /\ UpdaterUnused
    /\ BuffersUnused
    /\ TargetUnused
    /\ AppUnused

VisitorConstructed ==
    /\ Lock = Free
    /\ BestScore = Infinity
    /\ BestBin = NoBin
    /\ BestDevice = -1
    /\ BestCtr = NoCtr
    /\ BestBorders = [d \in Devices |-> NoBorders]
    /\ BestSplits = [d \in Devices |-> NoBits]

WorkersIdle ==
    /\ wpc = [d \in Devices |-> "idle"]
    /\ wqueue = [d \in Devices |-> <<>>]
    /\ wentry = [d \in Devices |-> 0]
    /\ wcand = [d \in Devices |-> NoCand]

\* the searcher after its constructor, with any learner options
SearcherConstructed ==
    /\ FoldBasedTasks = <<>>
    /\ SingleTaskTarget = FALSE
    /\ pc = "setup"
    /\ error = ""
    /\ depth = 0
    /\ result = <<>>
    /\ bestSplitProp = NoSplitProp
    /\ bestSplit = NoSplit
    /\ isTreeCtrSplit = FALSE
    /\ treeCtrSplitBits = NoBits
    /\ outstanding = {}
    /\ ctrDataSetsHelperPtr = FALSE
    /\ usedPermutations = 0
    /\ permutation = 0
    /\ treeCtrsEnabled \in BOOLEAN
    /\ registry = [c \in Ctrs |-> Unregistered]
    /\ adding = NoCtr
    /\ VisitorConstructed
    /\ WorkersIdle
    /\ reported = Infinity
    /\ inOrder = NoOrdered
    /\ addCtrCalls = [c \in Ctrs |-> 0]
    /\ seeded = Infinity
    /\ lowestCompleted = Infinity
    /\ counters = NoCounters
    /\ broke = FALSE
    /\ DataUnused
    /\ maxDepth \in DepthLimits
    /\ bootstrapTestOnly = FALSE

\* a searcher over a data set that has precomputed target CTRs
Init == SearcherConstructed /\ hasTargetCtrs = TRUE

\* ------------------------------------- TObliviousTreeStructureSearcher setup

\* AddTask(learnTarget, testTarget)
AddTask ==
    /\ pc = "setup"
    /\ Len(FoldBasedTasks) < MaxTasks
    /\ IF ~(SingleTaskTarget = FALSE)
       THEN /\ error' = "We can't mix learn/test splits and full estimation"
            /\ UNCHANGED searcherVars
       ELSE /\ FoldBasedTasks' = Append(FoldBasedTasks, Len(FoldBasedTasks) + 1)
            /\ error' = ""
            /\ UNCHANGED SingleTaskTarget
    /\ UNCHANGED <<pc, fitVars, managerVars, visitorVars, workerVars, observerVars>>
    /\ UNCHANGED dataVars

\* SetTarget without the check of the fold-based tasks
SetTargetNoFoldCheck ==
    /\ pc = "setup"
    /\ IF ~(SingleTaskTarget = FALSE)
       THEN /\ error' = "Target already was set"
            /\ UNCHANGED searcherVars
       ELSE /\ SingleTaskTarget' = TRUE
            /\ error' = ""
            /\ UNCHANGED FoldBasedTasks
    /\ UNCHANGED <<pc, fitVars, managerVars, visitorVars, workerVars, observerVars>>
    /\ UNCHANGED dataVars

\* SetTarget(target)
SetTarget ==
    /\ pc = "setup"
    /\ IF ~(SingleTaskTarget = FALSE)
       THEN /\ error' = "Target already was set"
            /\ UNCHANGED searcherVars
       ELSE IF ~(Len(FoldBasedTasks) = 0)
       THEN /\ error' = "Can't mix foldBased and singleTask targets"
            /\ UNCHANGED searcherVars
       ELSE /\ SingleTaskTarget' = TRUE
            /\ error' = ""
            /\ UNCHANGED FoldBasedTasks
    /\ UNCHANGED <<pc, fitVars, managerVars, visitorVars, workerVars, observerVars>>
    /\ UNCHANGED dataVars

\* ------------------------------------------------------------------- Fit

StaticJobs == {"submit:bin", "submit:dense", "submit:ctr",
               "compute:bin", "compute:dense", "compute:ctr"}

\* loop head of Fit: the next iteration, or the code after the loop
\* a loop that never leaves through its condition
LoopHeadNoBound(d) == "gather"

LoopHead(d) == IF d < maxDepth THEN "gather" ELSE "cache"

\* TMirrorBuffer<ui32>::CopyMapping(subsets.Indices): a buffer of the size
\* of Indices that nothing has written
Allocated == [by |-> "alloc", indices |-> 0]

\* the number of subsets.Split calls tells the orders of subsets.Indices
\* apart
IndicesVersion == counters.subsetsSplit

\* Gather(buffer, docIndices, subsets.Indices)
Gathered == [by |-> "gather", indices |-> IndicesVersion]

\* Fit(), up to the depth loop: the task check, the tree updater, the search
\* target, the subsets, the index buffers and the three score helpers
FitBegin ==
    /\ pc = "setup"
    /\ IF ~(Len(FoldBasedTasks) > 0 \/ SingleTaskTarget)
       THEN /\ pc' = "failed"
            /\ error' = "FoldBasedTasks.size() || SingleTaskTarget"
            /\ UNCHANGED fitVars
       ELSE /\ pc' = LoopHead(0)
            /\ error' = ""
            /\ depth' = 0
            /\ result' = <<>>
            /\ outstanding' = {"subsets"}
            /\ UNCHANGED <<bestSplitProp, bestSplit, isTreeCtrSplit, treeCtrSplitBits,
                           ctrDataSetsHelperPtr, usedPermutations, permutation, counters, broke>>
    /\ docBins' = <<>>
    /\ observationIndices' = Allocated
    /\ directObservationIndices' = IF hasTargetCtrs THEN Allocated ELSE NoBuffer
    /\ UNCHANGED <<searcherVars, managerVars, visitorVars, workerVars, observerVars>>
    /\ UNCHANGED <<inputVars, cached, hasTargetCtrs, handed>>

\* an iteration that scores with the buffers as they are
FitGatherNothing ==
    /\ pc = "gather"
    /\ outstanding' = outstanding \cup {"stats"}
    /\ pc' = "wait1"
    /\ UNCHANGED <<depth, result, bestSplitProp, bestSplit, isTreeCtrSplit, treeCtrSplitBits,
                   ctrDataSetsHelperPtr, usedPermutations, permutation, counters, broke>>
    /\ UNCHANGED <<searcherVars, error, managerVars, visitorVars, workerVars, observerVars>>
    /\ UNCHANGED dataVars

\* ComputePartitionStats and the gathers of the observation indices; the
\* direct ones only when the data set has target CTRs
FitGather ==
    /\ pc = "gather"
    /\ outstanding' = outstanding \cup {"stats", "gather"}
    /\ observationIndices' = Gathered
    /\ directObservationIndices' = IF hasTargetCtrs THEN Gathered ELSE directObservationIndices
    /\ pc' = "wait1"
    /\ UNCHANGED <<depth, result, bestSplitProp, bestSplit, isTreeCtrSplit, treeCtrSplitBits,
                   ctrDataSetsHelperPtr, usedPermutations, permutation, counters, broke>>
    /\ UNCHANGED <<searcherVars, error, managerVars, visitorVars, workerVars, observerVars>>
    /\ UNCHANGED <<inputVars, updaterVars, hasTargetCtrs, handed>>

\* manager.WaitComplete(): every submitted job has completed
WaitComplete(jobs) == {}

\* the barrier before the submissions of the depth
FitWaitBeforeSubmit ==
    /\ pc = "wait1"
    /\ outstanding' = WaitComplete(outstanding)
    /\ pc' = "submit"
    /\ UNCHANGED <<depth, result, bestSplitProp, bestSplit, isTreeCtrSplit, treeCtrSplitBits,
                   ctrDataSetsHelperPtr, usedPermutations, permutation, counters, broke>>
    /\ UNCHANGED <<searcherVars, error, managerVars, visitorVars, workerVars, observerVars>>
    /\ UNCHANGED dataVars

\* SubmitCompute of the binary, the dense and the CTR helper
FitSubmitCompute ==
    /\ pc = "submit"
    /\ outstanding' = outstanding \cup {"submit:bin", "submit:dense", "submit:ctr"}
    /\ counters' = [counters EXCEPT !.submit = @ + 1]
    /\ handed' = [bin |-> observationIndices, dense |-> observationIndices,
                  ctr |-> directObservationIndices]
    /\ pc' = "compute"
    /\ UNCHANGED <<depth, result, bestSplitProp, bestSplit, isTreeCtrSplit, treeCtrSplitBits,
                   ctrDataSetsHelperPtr, usedPermutations, permutation, broke>>
    /\ UNCHANGED <<searcherVars, error, managerVars, visitorVars, workerVars, observerVars>>
    /\ UNCHANGED <<inputVars, updaterVars, hasTargetCtrs, observationIndices,
                   directObservationIndices>>

\* ComputeOptimalSplit of the three helpers
FitComputeOptimalSplit ==
    /\ pc = "compute"
    /\ outstanding' = outstanding \cup {"compute:bin", "compute:dense", "compute:ctr"}
    /\ pc' = "wait2"
    /\ UNCHANGED <<depth, result, bestSplitProp, bestSplit, isTreeCtrSplit, treeCtrSplitBits,
                   ctrDataSetsHelperPtr, usedPermutations, permutation, counters, broke>>
    /\ UNCHANGED <<searcherVars, error, managerVars, visitorVars, workerVars, observerVars>>
    /\ UNCHANGED dataVars

\* the reads reached without the barrier
FitNoWaitBeforeRead ==
    /\ pc = "wait2"
    /\ pc' = "read"
    /\ UNCHANGED <<searcherVars, error, fitVars, managerVars, visitorVars, workerVars, observerVars>>
    /\ UNCHANGED dataVars

\* the barrier between the submissions and the reads
FitWaitBeforeRead ==
    /\ pc = "wait2"
    /\ outstanding' = WaitComplete(outstanding)
    /\ pc' = "read"
    /\ UNCHANGED <<depth, result, bestSplitProp, bestSplit, isTreeCtrSplit, treeCtrSplitBits,
                   ctrDataSetsHelperPtr, usedPermutations, permutation, counters, broke>>
    /\ UNCHANGED <<searcherVars, error, managerVars, visitorVars, workerVars, observerVars>>
    /\ UNCHANGED dataVars

\* the lower of two scores
Min(a, b) == IF a < b THEN a ELSE b

\* the helper of the target CTRs has a candidate only when the data set
\* has target CTRs
TargetCtrResults ==
    IF hasTargetCtrs THEN HelperResults(TargetCtrFeature, {0}) ELSE {NoSplitProp}

\* TakeBest over the three ReadAndRemapOptimalSplit results
FitReadBest ==
    /\ pc = "read"
    /\ \E f \in HelperResults(DenseFeature, {0, 1}),
          b \in HelperResults(BinaryFeature, {0}),
          c \in TargetCtrResults :
          /\ bestSplitProp' = TakeBest(f, b, c)
          /\ reported' = Min(f.Score, Min(b.Score, c.Score))
    /\ isTreeCtrSplit' = FALSE
    /\ treeCtrSplitBits' = NoBits
    /\ inOrder' = NoOrdered
    /\ pc' = "ctrs"
    /\ UNCHANGED <<depth, result, bestSplit, outstanding,
                   ctrDataSetsHelperPtr, usedPermutations, permutation, counters, broke>>
    /\ UNCHANGED <<searcherVars, error, managerVars, visitorVars, workerVars, addCtrCalls>>
    /\ UNCHANGED <<seeded, lowestCompleted>>
    /\ UNCHANGED dataVars

\* if (FeaturesManager.IsTreeCtrsEnabled()): the helper is created on first
\* use; with used permutations the visitor is constructed and seeded
FitTreeCtrs ==
    /\ pc = "ctrs"
    /\ IF treeCtrsEnabled
       THEN /\ ctrDataSetsHelperPtr' = TRUE
            /\ IF ctrDataSetsHelperPtr
               THEN usedPermutations' = usedPermutations
               ELSE usedPermutations' \in UsedPermutationCounts
            /\ IF usedPermutations' > 0
               THEN /\ Lock' = Free
                    /\ BestScore' = bestSplitProp.Score
                    /\ BestBin' = NoBin
                    /\ BestDevice' = -1
                    /\ BestCtr' = NoCtr
                    /\ BestBorders' = [d \in Devices |-> NoBorders]
                    /\ BestSplits' = [d \in Devices |-> NoBits]
                    /\ seeded' = bestSplitProp.Score
                    /\ lowestCompleted' = bestSplitProp.Score
                    /\ permutation' = 1
                    /\ pc' = "permutation"
               ELSE /\ pc' = "ensure"
                    /\ UNCHANGED <<visitorVars, permutation, seeded, lowestCompleted>>
       ELSE /\ pc' = "ensure"
            /\ UNCHANGED <<visitorVars, ctrDataSetsHelperPtr, usedPermutations, permutation,
                           seeded, lowestCompleted>>
    /\ UNCHANGED <<depth, result, bestSplitProp, bestSplit, isTreeCtrSplit, treeCtrSplitBits,
                   outstanding, counters, broke>>
    /\ UNCHANGED <<searcherVars, error, managerVars, workerVars>>
    /\ UNCHANGED <<reported, inOrder, addCtrCalls>>
    /\ UNCHANGED dataVars

\* one worker's state when it starts on the data sets in q
StartWorker(q) == IF Len(q) = 0 THEN "done" ELSE "cache"

\* one pass of the permutation loop: the index buffers are rebuilt and
\* VisitPermutationDataSets starts the per-device workers
FitVisitPermutation ==
    /\ pc = "permutation"
    /\ wqueue' = [d \in Devices |-> DeviceDataSets(d)]
    /\ wpc' = [d \in Devices |-> StartWorker(DeviceDataSets(d))]
    /\ wentry' = [d \in Devices |-> 1]
    /\ wcand' = [d \in Devices |-> NoCand]
    /\ directObservationIndices' = [by |-> "visitor", indices |-> IndicesVersion]
    /\ pc' = "visit"
    /\ UNCHANGED <<searcherVars, error, fitVars, managerVars, visitorVars, observerVars>>
    /\ UNCHANGED <<inputVars, updaterVars, hasTargetCtrs, observationIndices, handed>>

\* ------------------------------------- TTreeCtrDataSetVisitor::Accept

\* Observer.  UpdateBestSplit run on the data sets one after another, in
\* enumeration order (permutation, then data set), keeps the first candidate
\* with the lowest score below the seed.  o is that candidate among the
\* ones reported so far.
InOrderBest(o, ds, cand) ==
    LET better == \/ cand.Score < o.Score
                  \/ cand.Score = o.Score /\ permutation < o.perm
                  \/ cand.Score = o.Score /\ permutation = o.perm /\ ds < o.ds
    IN IF cand.Score < bestSplitProp.Score /\ (o.ds = 0 \/ better)
       THEN [Score |-> cand.Score, perm |-> permutation, ds |-> ds,
             ctr |-> DataSetCtrs(ds)[cand.FeatureId], bin |-> cand.BinId]
       ELSE o

\* the workers run while VisitPermutationDataSets has not returned
Visiting == pc \in {"visit", "h_visit"}

\* the data set a worker is visiting
CurrentDataSet(d) == Head(wqueue[d])

\* the bordersMap entry CacheCtrBorders is at
CurrentEntry(d) == GetCtrsBordersToCacheIds(CurrentDataSet(d))[wentry[d]]

\* the CTR the worker's candidate names: dataSet.GetCtrs()[FeatureId]
CandidateCtr(d) == DataSetCtrs(CurrentDataSet(d))[wcand[d].FeatureId]

\* Accept returned: the worker goes on to its next data set
NextDataSet(d) ==
    /\ wqueue' = [wqueue EXCEPT ![d] = Tail(@)]
    /\ wpc' = [wpc EXCEPT ![d] = StartWorker(Tail(wqueue[d]))]
    /\ wentry' = [wentry EXCEPT ![d] = 1]
    /\ wcand' = [wcand EXCEPT ![d] = NoCand]

\* CacheCtrBorders: the unlocked IsKnown of one bordersMap entry
WCacheCheck(d) ==
    /\ Visiting /\ wpc[d] = "cache"
    /\ wentry[d] <= Len(GetCtrsBordersToCacheIds(CurrentDataSet(d)))
    /\ \E known \in RacyIsKnown(registry, adding, CurrentEntry(d)) :
          IF known
          THEN /\ wentry' = [wentry EXCEPT ![d] = @ + 1]
               /\ UNCHANGED wpc
          ELSE /\ wpc' = [wpc EXCEPT ![d] = "cache_lock"]
               /\ UNCHANGED wentry
    /\ UNCHANGED <<wqueue, wcand>>
    /\ UNCHANGED <<searcherVars, pc, error, fitVars, managerVars, visitorVars, observerVars>>
    /\ UNCHANGED dataVars

\* CacheCtrBorders: the guard is taken, Y_ASSERT(!IsKnown) is evaluated and
\* FeaturesManager.AddCtr is entered.  When the CTR is known by now a debug
\* build aborts the process at the assertion; a release build has no
\* assertion and calls AddCtr, which registers a CTR at most once: it
\* throws, the guard unwinds and Accept ends with the exception.
WCacheLock(d) ==
    /\ Visiting /\ wpc[d] = "cache_lock"
    /\ Lock = Free
    /\ IF IsKnown(registry, CurrentEntry(d))
       THEN \/ /\ wpc' = [wpc EXCEPT ![d] = "assert_failed"]
               /\ pc' = "aborted"
               /\ error' = "Y_ASSERT(!FeaturesManager.IsKnown(entry.first))"
               /\ Lock' = d
               /\ UNCHANGED <<adding, addCtrCalls>>
            \/ /\ wpc' = [wpc EXCEPT ![d] = "failed"]
               /\ error' = "AddCtr: ctr is already known"
               /\ addCtrCalls' = [addCtrCalls EXCEPT ![CurrentEntry(d)] = @ + 1]
               /\ UNCHANGED <<pc, Lock, adding>>
       ELSE /\ wpc' = [wpc EXCEPT ![d] = "cache_store"]
            /\ Lock' = d
            /\ adding' = CurrentEntry(d)
            /\ addCtrCalls' = [addCtrCalls EXCEPT ![CurrentEntry(d)] = @ + 1]
            /\ UNCHANGED <<pc, error>>
    /\ UNCHANGED <<wqueue, wentry, wcand, reported, inOrder, seeded, lowestCompleted>>
    /\ UNCHANGED <<searcherVars, fitVars, treeCtrsEnabled, registry, BestScore, BestBin,
                   BestDevice, BestCtr, BestBorders, BestSplits>>
    /\ UNCHANGED dataVars

\* CacheCtrBorders: AddCtr has stored the entry and the guard is released
WCacheStore(d) ==
    /\ Visiting /\ wpc[d] = "cache_store"
    /\ registry' = AddCtr(registry, CurrentEntry(d), ReadBorders(CurrentEntry(d)))
    /\ adding' = NoCtr
    /\ Lock' = Free
    /\ wentry' = [wentry EXCEPT ![d] = @ + 1]
    /\ wpc' = [wpc EXCEPT ![d] = "cache"]
    /\ UNCHANGED <<wqueue, wcand, treeCtrsEnabled>>
    /\ UNCHANGED <<searcherVars, pc, error, fitVars, BestScore, BestBin, BestDevice, BestCtr,
                   BestBorders, BestSplits, observerVars>>
    /\ UNCHANGED dataVars

\* Accept once the borders are cached: SubmitCompute, ComputeOptimalSplit
\* and the blocking ReadAndRemapOptimalSplit of the data set's score helper
WScore(d) ==
    /\ Visiting /\ wpc[d] = "cache"
    /\ wentry[d] > Len(GetCtrsBordersToCacheIds(CurrentDataSet(d)))
    /\ \E cand \in DataSetResults(CurrentDataSet(d)) :
          /\ wcand' = [wcand EXCEPT ![d] = cand]
          /\ inOrder' = InOrderBest(inOrder, CurrentDataSet(d), cand)
          /\ reported' = Min(reported, cand.Score)
    /\ wpc' = [wpc EXCEPT ![d] = "update_lock"]
    /\ UNCHANGED <<wqueue, wentry, addCtrCalls, seeded, lowestCompleted>>
    /\ UNCHANGED <<searcherVars, pc, error, fitVars, managerVars, visitorVars>>
    /\ UNCHANGED dataVars

\* UpdateBestSplit entered without taking the guard
WUpdateNoLock(d) ==
    /\ Visiting /\ wpc[d] = "update_lock"
    /\ wpc' = [wpc EXCEPT ![d] = "update_compare"]
    /\ UNCHANGED <<wqueue, wentry, wcand>>
    /\ UNCHANGED <<searcherVars, pc, error, fitVars, managerVars, visitorVars, observerVars>>
    /\ UNCHANGED dataVars

\* UpdateBestSplit: the guard is taken
WUpdateLock(d) ==
    /\ Visiting /\ wpc[d] = "update_lock"
    /\ Lock = Free
    /\ Lock' = d
    /\ wpc' = [wpc EXCEPT ![d] = "update_compare"]
    /\ UNCHANGED <<wqueue, wentry, wcand>>
    /\ UNCHANGED <<searcherVars, pc, error, fitVars, managerVars, BestScore, BestBin, BestDevice,
                   BestCtr, BestBorders, BestSplits, observerVars>>
    /\ UNCHANGED dataVars

\* a comparison turned around
ImprovesReversed(score, best) == score > best

\* a comparison that lets an equal score through
ImprovesOrEqual(score, best) == score <= best

\* a comparison every candidate passes
ImprovesAlways(score, best) == TRUE

\* a comparison that takes every candidate with another score
ImprovesWhenDifferent(score, best) == score # best

\* if (bestSplitProperties.Score < BestScore)
Improves(score, best) == score < best

\* a comparison that returns on the else branch with the guard still held
WUpdateCompareKeepLock(d) ==
    /\ Visiting /\ wpc[d] = "update_compare"
    /\ IF Improves(wcand[d].Score, BestScore)
       THEN /\ Lock' = Free
            /\ BestScore' = wcand[d].Score
            /\ BestBin' = wcand[d].BinId
            /\ BestDevice' = d
            /\ BestCtr' = CandidateCtr(d)
            /\ wpc' = [wpc EXCEPT ![d] = "materialize"]
            /\ UNCHANGED <<wqueue, wentry, wcand>>
       ELSE /\ NextDataSet(d)
            /\ UNCHANGED <<Lock, BestScore, BestBin, BestDevice, BestCtr>>
    /\ UNCHANGED <<BestBorders, BestSplits>>
    /\ lowestCompleted' = Min(lowestCompleted, wcand[d].Score)
    /\ UNCHANGED <<searcherVars, pc, error, fitVars, managerVars>>
    /\ UNCHANGED <<reported, inOrder, addCtrCalls, seeded>>
    /\ UNCHANGED dataVars

\* UpdateBestSplit: the comparison under the guard; the guard is released
\* on both branches
WUpdateCompare(d) ==
    /\ Visiting /\ wpc[d] = "update_compare"
    /\ Lock' = Free
    /\ IF Improves(wcand[d].Score, BestScore)
       THEN /\ BestScore' = wcand[d].Score
            /\ BestBin' = wcand[d].BinId
            /\ BestDevice' = d
            /\ BestCtr' = CandidateCtr(d)
            /\ wpc' = [wpc EXCEPT ![d] = "materialize"]
            /\ UNCHANGED <<wqueue, wentry, wcand>>
       ELSE /\ NextDataSet(d)
            /\ UNCHANGED <<BestScore, BestBin, BestDevice, BestCtr>>
    /\ UNCHANGED <<BestBorders, BestSplits>>
    /\ lowestCompleted' = Min(lowestCompleted, wcand[d].Score)
    /\ UNCHANGED <<searcherVars, pc, error, fitVars, managerVars>>
    /\ UNCHANGED <<reported, inOrder, addCtrCalls, seeded>>
    /\ UNCHANGED dataVars

\* CreateCompressedSplit into BestSplits[dev]: the bitset of one CTR's bin
CompressedSplit(c, bin) == [ctr |-> c, bin |-> bin, size |-> 1]

\* UpdateBestSplit after the guard: the compact bitset of the device slot,
\* and the borders of a CTR that is not known (an unlocked IsKnown)
WMaterialize(d) ==
    /\ Visiting /\ wpc[d] = "materialize"
    /\ BestSplits' = [BestSplits EXCEPT ![d] = CompressedSplit(CandidateCtr(d), wcand[d].BinId)]
    /\ \E known \in RacyIsKnown(registry, adding, CandidateCtr(d)) :
          IF known
          THEN /\ NextDataSet(d)
               /\ UNCHANGED <<BestBorders, error>>
          ELSE /\ BestBorders' = [BestBorders EXCEPT ![d] = ReadBorders(CandidateCtr(d))]
               /\ IF wcand[d].BinId < ReadBorders(CandidateCtr(d)).size
                  THEN /\ NextDataSet(d)
                       /\ UNCHANGED error
                  ELSE /\ wpc' = [wpc EXCEPT ![d] = "failed"]
                       /\ error' = "binId < BestBorders[dev].size()"
                       /\ UNCHANGED <<wqueue, wentry, wcand>>
    /\ UNCHANGED <<Lock, BestScore, BestBin, BestDevice, BestCtr>>
    /\ UNCHANGED <<searcherVars, pc, fitVars, managerVars, observerVars>>
    /\ UNCHANGED dataVars

Worker(d) ==
    \/ WCacheCheck(d)
    \/ WCacheLock(d)
    \/ WCacheStore(d)
    \/ WScore(d)
    \/ WUpdateLock(d)
    \/ WUpdateCompare(d)
    \/ WMaterialize(d)

\* --------------------------- CreateBestSplitProperties, GetBestSplitBits

\* the registry after CreateBestSplitProperties: a best CTR that is not
\* known is registered with the borders of the best device's slot
CreateRegistry(reg, ctr, borders) ==
    IF ~IsKnown(reg, ctr) THEN AddCtr(reg, ctr, borders) ELSE reg

\* the TBestSplitProperties CreateBestSplitProperties returns
CreateBestSplitProperties(reg) ==
    [FeatureId |-> GetId(reg, BestCtr), BinId |-> BestBin, Score |-> BestScore]

\* a visitor that outlives the if block
VisitorKept == UNCHANGED visitorVars

\* the visitor goes out of scope at the end of the if block
VisitorDestroyed ==
    /\ Lock' = Free
    /\ BestScore' = Infinity
    /\ BestBin' = NoBin
    /\ BestDevice' = -1
    /\ BestCtr' = NoCtr
    /\ BestBorders' = [d \in Devices |-> NoBorders]
    /\ BestSplits' = [d \in Devices |-> NoBits]

\* VisitPermutationDataSets returns when every worker is through; an
\* exception of a worker ends Fit
FitJoin ==
    /\ pc = "visit"
    /\ \A d \in Devices : wpc[d] \in {"done", "failed"}
    /\ IF \E d \in Devices : wpc[d] = "failed"
       THEN /\ pc' = "failed"
            /\ UNCHANGED permutation
       ELSE IF permutation < usedPermutations
       THEN /\ pc' = "permutation"
            /\ permutation' = permutation + 1
       ELSE /\ pc' = "has_split"
            /\ UNCHANGED permutation
    /\ wpc' = [d \in Devices |-> "idle"]
    /\ UNCHANGED <<wqueue, wentry, wcand>>
    /\ UNCHANGED <<depth, result, bestSplitProp, bestSplit, isTreeCtrSplit, treeCtrSplitBits,
                   outstanding, ctrDataSetsHelperPtr, usedPermutations, counters, broke>>
    /\ UNCHANGED <<searcherVars, error, managerVars, visitorVars, observerVars>>
    /\ UNCHANGED dataVars

\* if (ctrDataSetVisitor.HasSplit()): the visitor's split supersedes the
\* static one.  Y_ASSERT(BinId < borders.size()) aborts a debug build.
FitTakeVisitorSplit ==
    /\ pc = "has_split"
    /\ IF VisitorHasSplit
       THEN IF EnsureHasBestProps # ""
            THEN /\ pc' = "failed"
                 /\ error' = EnsureHasBestProps
                 /\ UNCHANGED <<bestSplitProp, treeCtrSplitBits, isTreeCtrSplit,
                                registry, addCtrCalls>>
            ELSE /\ registry' = CreateRegistry(registry, BestCtr, BestBorders[BestDevice])
                 /\ addCtrCalls' = IF IsKnown(registry, BestCtr) THEN addCtrCalls
                                   ELSE [addCtrCalls EXCEPT ![BestCtr] = @ + 1]
                 /\ bestSplitProp' = CreateBestSplitProperties(registry')
                 /\ treeCtrSplitBits' = BestSplits[BestDevice]
                 /\ isTreeCtrSplit' = TRUE
                 /\ \/ /\ pc' = "ensure"
                       /\ UNCHANGED error
                    \/ /\ ~(BestBin < GetBorders(registry', GetId(registry', BestCtr)).size)
                       /\ pc' = "aborted"
                       /\ error' = "Y_ASSERT(splitProperties.BinId < borders.size())"
       ELSE /\ pc' = "ensure"
            /\ UNCHANGED <<bestSplitProp, treeCtrSplitBits, isTreeCtrSplit, registry,
                           addCtrCalls, error>>
    /\ VisitorDestroyed
    /\ seeded' = Infinity
    /\ lowestCompleted' = Infinity
    /\ UNCHANGED <<depth, result, bestSplit, outstanding, ctrDataSetsHelperPtr,
                   usedPermutations, permutation, counters, broke>>
    /\ UNCHANGED <<searcherVars, treeCtrsEnabled, adding, workerVars, reported, inOrder>>
    /\ UNCHANGED dataVars

\* a check that lets the default split through
SplitFoundAlways(prop) == TRUE

\* bestSplitProp.FeatureId != static_cast<ui32>(-1)
SplitFound(prop) == prop.FeatureId # NoFeature

\* a split type that ignores the feature kind
SplitTypeThreshold(featureId) == "TakeGreater"

\* bestSplit.SplitType: the one-hot test for a categorical feature, the
\* threshold test for any other
SplitType(featureId) == IF IsCat(featureId) THEN "TakeBin" ELSE "TakeGreater"

\* CB_ENSURE(bestSplitProp.FeatureId != -1) and the TBinarySplit
FitEnsureSplit ==
    /\ pc = "ensure"
    /\ IF ~SplitFound(bestSplitProp)
       THEN /\ pc' = "failed"
            /\ error' = "Error: something went wrong, best split is NaN with score"
            /\ UNCHANGED bestSplit
       ELSE /\ pc' = "duplicate"
            /\ bestSplit' = [FeatureId |-> bestSplitProp.FeatureId,
                             BinIdx |-> bestSplitProp.BinId,
                             SplitType |-> SplitType(bestSplitProp.FeatureId)]
            /\ UNCHANGED error
    /\ UNCHANGED <<depth, result, bestSplitProp, isTreeCtrSplit, treeCtrSplitBits, outstanding,
                   ctrDataSetsHelperPtr, usedPermutations, permutation, counters, broke>>
    /\ UNCHANGED <<searcherVars, managerVars, visitorVars, workerVars, observerVars>>
    /\ UNCHANGED dataVars

\* the loop body without the early-stop break
FitCheckDuplicateNoBreak ==
    /\ pc = "duplicate"
    /\ pc' = "add_split"
    /\ UNCHANGED <<searcherVars, error, fitVars, managerVars, visitorVars, workerVars, observerVars>>
    /\ UNCHANGED dataVars

\* a loop body that breaks whatever the tree holds
FitCheckDuplicateBreakAlways ==
    /\ pc = "duplicate"
    /\ pc' = "cache"
    /\ broke' = TRUE
    /\ UNCHANGED <<depth, result, bestSplitProp, bestSplit, isTreeCtrSplit, treeCtrSplitBits,
                   outstanding, ctrDataSetsHelperPtr, usedPermutations, permutation, counters>>
    /\ UNCHANGED <<searcherVars, error, managerVars, visitorVars, workerVars, observerVars>>
    /\ UNCHANGED dataVars

\* a duplicate found after the tree updater has applied it
FitCheckDuplicateAfterApply ==
    /\ pc = "duplicate"
    /\ IF HasSplit(result, bestSplit)
       THEN /\ pc' = "cache"
            /\ broke' = TRUE
            /\ counters' = [counters EXCEPT !.addSplit = @ + 1]
            /\ docBins' = Append(docBins, bestSplit)
       ELSE /\ pc' = "add_split"
            /\ UNCHANGED <<broke, counters, docBins>>
    /\ UNCHANGED <<depth, result, bestSplitProp, bestSplit, isTreeCtrSplit, treeCtrSplitBits,
                   outstanding, ctrDataSetsHelperPtr, usedPermutations, permutation>>
    /\ UNCHANGED <<searcherVars, error, managerVars, visitorVars, workerVars, observerVars>>
    /\ UNCHANGED <<inputVars, cached, bufferVars>>

\* if (result.HasSplit(bestSplit)) break;
FitCheckDuplicate ==
    /\ pc = "duplicate"
    /\ IF HasSplit(result, bestSplit)
       THEN /\ pc' = "cache"
            /\ broke' = TRUE
       ELSE /\ pc' = "add_split"
            /\ UNCHANGED broke
    /\ UNCHANGED <<depth, result, bestSplitProp, bestSplit, isTreeCtrSplit, treeCtrSplitBits,
                   outstanding, ctrDataSetsHelperPtr, usedPermutations, permutation, counters>>
    /\ UNCHANGED <<searcherVars, error, managerVars, visitorVars, workerVars, observerVars>>
    /\ UNCHANGED dataVars

\* treeUpdater.AddSplit, with the visitor's bitset for a tree-CTR split
FitAddSplit ==
    /\ pc = "add_split"
    /\ IF isTreeCtrSplit /\ ~(treeCtrSplitBits.size > 0)
       THEN /\ pc' = "failed"
            /\ error' = "treeCtrSplitBits.GetObjectsSlice().Size()"
            /\ UNCHANGED <<counters, outstanding, docBins>>
       ELSE /\ pc' = "subsets"
            /\ counters' = [counters EXCEPT !.addSplit = @ + 1]
            /\ outstanding' = outstanding \cup
                                  {IF isTreeCtrSplit THEN "bins:bits" ELSE "bins"}
            /\ docBins' = Append(docBins, bestSplit)
            /\ UNCHANGED error
    /\ UNCHANGED <<depth, result, bestSplitProp, bestSplit, isTreeCtrSplit, treeCtrSplitBits,
                   ctrDataSetsHelperPtr, usedPermutations, permutation, broke>>
    /\ UNCHANGED <<searcherVars, managerVars, visitorVars, workerVars, observerVars>>
    /\ UNCHANGED <<inputVars, cached, bufferVars>>

\* a loop body that leaves the subsets as they are
FitSplitSubsetsNever ==
    /\ pc = "subsets"
    /\ pc' = "push"
    /\ UNCHANGED <<depth, result, bestSplitProp, bestSplit, isTreeCtrSplit, treeCtrSplitBits,
                   outstanding, ctrDataSetsHelperPtr, usedPermutations, permutation, counters,
                   broke>>
    /\ UNCHANGED <<searcherVars, error, managerVars, visitorVars, workerVars, observerVars>>
    /\ UNCHANGED dataVars

\* the re-partitioning done at the last depth as well
FitSplitSubsetsAlways ==
    /\ pc = "subsets"
    /\ outstanding' = outstanding \cup {"split"}
    /\ counters' = [counters EXCEPT
                       !.subsetsSplit = @ + 1,
                       !.ctrAddSplit = IF ctrDataSetsHelperPtr THEN @ + 1 ELSE @]
    /\ observationIndices' = [by |-> "split", indices |-> IndicesVersion]
    /\ pc' = "push"
    /\ UNCHANGED <<depth, result, bestSplitProp, bestSplit, isTreeCtrSplit, treeCtrSplitBits,
                   ctrDataSetsHelperPtr, usedPermutations, permutation, broke>>
    /\ UNCHANGED <<searcherVars, error, managerVars, visitorVars, workerVars, observerVars>>
    /\ UNCHANGED <<inputVars, updaterVars, hasTargetCtrs, directObservationIndices, handed>>

\* if ((depth + 1) != maxDepth): subsets.Split and ctrDataSetsHelper.AddSplit
FitSplitSubsets ==
    /\ pc = "subsets"
    /\ IF (depth + 1) # maxDepth
       THEN /\ outstanding' = outstanding \cup {"split"}
            /\ counters' = [counters EXCEPT
                               !.subsetsSplit = @ + 1,
                               !.ctrAddSplit = IF ctrDataSetsHelperPtr THEN @ + 1 ELSE @]
            /\ observationIndices' = [by |-> "split", indices |-> IndicesVersion]
       ELSE UNCHANGED <<outstanding, counters, observationIndices>>
    /\ pc' = "push"
    /\ UNCHANGED <<depth, result, bestSplitProp, bestSplit, isTreeCtrSplit, treeCtrSplitBits,
                   ctrDataSetsHelperPtr, usedPermutations, permutation, broke>>
    /\ UNCHANGED <<searcherVars, error, managerVars, visitorVars, workerVars, observerVars>>
    /\ UNCHANGED <<inputVars, updaterVars, hasTargetCtrs, directObservationIndices, handed>>

\* the split stored over the tree instead of appended to it
FitPushSplitReplace ==
    /\ pc = "push"
    /\ result' = <<bestSplit>>
    /\ depth' = depth + 1
    /\ pc' = LoopHead(depth + 1)
    /\ bestSplitProp' = NoSplitProp
    /\ bestSplit' = NoSplit
    /\ isTreeCtrSplit' = FALSE
    /\ treeCtrSplitBits' = NoBits
    /\ reported' = Infinity
    /\ inOrder' = NoOrdered
    /\ UNCHANGED <<outstanding, ctrDataSetsHelperPtr, usedPermutations, permutation, counters,
                   broke>>
    /\ UNCHANGED <<searcherVars, error, managerVars, visitorVars, workerVars, addCtrCalls>>
    /\ UNCHANGED <<seeded, lowestCompleted>>
    /\ UNCHANGED dataVars

\* result.Splits.push_back(bestSplit); ++depth; the locals of the loop body
\* go out of scope
FitPushSplit ==
    /\ pc = "push"
    /\ result' = Append(result, bestSplit)
    /\ depth' = depth + 1
    /\ pc' = LoopHead(depth + 1)
    /\ bestSplitProp' = NoSplitProp
    /\ bestSplit' = NoSplit
    /\ isTreeCtrSplit' = FALSE
    /\ treeCtrSplitBits' = NoBits
    /\ reported' = Infinity
    /\ inOrder' = NoOrdered
    /\ UNCHANGED <<outstanding, ctrDataSetsHelperPtr, usedPermutations, permutation, counters,
                   broke>>
    /\ UNCHANGED <<searcherVars, error, managerVars, visitorVars, workerVars, addCtrCalls>>
    /\ UNCHANGED <<seeded, lowestCompleted>>
    /\ UNCHANGED dataVars

\* CacheBinsForModel and the return of the tree
FitCacheBins ==
    /\ pc = "cache"
    /\ counters' = [counters EXCEPT !.cacheBins = @ + 1]
    /\ cached' = Append(cached, [tree |-> result, bins |-> docBins])
    /\ pc' = "done"
    /\ UNCHANGED <<depth, result, bestSplitProp, bestSplit, isTreeCtrSplit, treeCtrSplitBits,
                   outstanding, ctrDataSetsHelperPtr, usedPermutations, permutation, broke>>
    /\ UNCHANGED <<searcherVars, error, managerVars, visitorVars, workerVars, observerVars>>
    /\ UNCHANGED <<inputVars, docBins, bufferVars>>

Fit ==
    \/ FitBegin
    \/ FitGather
    \/ FitWaitBeforeSubmit
    \/ FitSubmitCompute
    \/ FitComputeOptimalSplit
    \/ FitWaitBeforeRead
    \/ FitReadBest
    \/ FitTreeCtrs
    \/ FitVisitPermutation
    \/ FitJoin
    \/ FitTakeVisitorSplit
    \/ FitEnsureSplit
    \/ FitCheckDuplicate
    \/ FitAddSplit
    \/ FitSplitSubsets
    \/ FitPushSplit
    \/ FitCacheBins

Next ==
    \/ AddTask
    \/ SetTarget
    \/ Fit
    \/ \E d \in Devices : Worker(d)

Spec == Init /\ [][Next]_vars

\* The thread that runs Fit and the workers of VisitPermutationDataSets
\* are scheduled: each of them takes its next step when it stays able to.
\* A worker waiting for the TAdaptiveLock gets it once the lock stays free.
SpecFair ==
    /\ Spec
    /\ WF_vars(Fit)
    /\ \A d \in Devices : WF_vars(Worker(d))

\* Fit over data sets with and without precomputed target CTRs
InitBuffers == SearcherConstructed /\ hasTargetCtrs \in BOOLEAN

SpecBuffers == InitBuffers /\ [][Next]_vars

\* -------------------------- the visitor used on its own (SpecVisitor)

\* number of VisitPermutationDataSets passes one visitor is given
MaxVisits == 2

\* A visitor constructed over an empty registry; its caller seeds it, hands
\* it to VisitPermutationDataSets and calls the extraction methods in any
\* order, whenever no worker is inside Accept.
InitVisitor ==
    /\ FoldBasedTasks = <<>>
    /\ SingleTaskTarget = FALSE
    /\ pc = "harness"
    /\ error = ""
    /\ depth = 0
    /\ result = <<>>
    /\ bestSplitProp = NoSplitProp
    /\ bestSplit = NoSplit
    /\ isTreeCtrSplit = FALSE
    /\ treeCtrSplitBits = NoBits
    /\ outstanding = {}
    /\ ctrDataSetsHelperPtr = FALSE
    /\ usedPermutations = 0
    /\ permutation = 0
    /\ treeCtrsEnabled = TRUE
    /\ registry = [c \in Ctrs |-> Unregistered]
    /\ adding = NoCtr
    /\ VisitorConstructed
    /\ WorkersIdle
    /\ reported = Infinity
    /\ inOrder = NoOrdered
    /\ addCtrCalls = [c \in Ctrs |-> 0]
    /\ seeded = Infinity
    /\ lowestCompleted = Infinity
    /\ counters = NoCounters
    /\ broke = FALSE
    /\ DataUnused
    /\ maxDepth = MaxDepth
    /\ bootstrapTestOnly = FALSE
    /\ hasTargetCtrs = TRUE

\* SetBestScore(score), before the first pass
HSetBestScore ==
    /\ pc = "harness"
    /\ permutation = 0
    /\ BestScore' \in (Scores \cup {Infinity}) \ {BestScore}
    /\ seeded' = BestScore'
    /\ lowestCompleted' = BestScore'
    /\ UNCHANGED <<Lock, BestBin, BestDevice, BestCtr, BestBorders, BestSplits>>
    /\ UNCHANGED <<searcherVars, pc, error, fitVars, managerVars, workerVars>>
    /\ UNCHANGED <<reported, inOrder, addCtrCalls>>
    /\ UNCHANGED dataVars

\* VisitPermutationDataSets(permutation, visitor.Accept) is entered
HVisit ==
    /\ pc = "harness"
    /\ permutation < MaxVisits
    /\ permutation' = permutation + 1
    /\ wqueue' = [d \in Devices |-> DeviceDataSets(d)]
    /\ wpc' = [d \in Devices |-> StartWorker(DeviceDataSets(d))]
    /\ wentry' = [d \in Devices |-> 1]
    /\ wcand' = [d \in Devices |-> NoCand]
    /\ pc' = "h_visit"
    /\ error' = ""
    /\ UNCHANGED <<depth, result, bestSplitProp, bestSplit, isTreeCtrSplit, treeCtrSplitBits,
                   outstanding, ctrDataSetsHelperPtr, usedPermutations, counters, broke>>
    /\ UNCHANGED <<searcherVars, managerVars, visitorVars, observerVars>>
    /\ UNCHANGED dataVars

\* VisitPermutationDataSets returns (or rethrows a worker's exception)
HJoin ==
    /\ pc = "h_visit"
    /\ \A d \in Devices : wpc[d] \in {"done", "failed"}
    /\ pc' = "harness"
    /\ wpc' = [d \in Devices |-> "idle"]
    /\ UNCHANGED <<wqueue, wentry, wcand>>
    /\ UNCHANGED <<searcherVars, error, fitVars, managerVars, visitorVars, observerVars>>
    /\ UNCHANGED dataVars

\* CreateBestSplitProperties() called on the visitor
HCreateBestSplitProperties ==
    /\ pc = "harness"
    /\ IF EnsureHasBestProps # ""
       THEN /\ error' = EnsureHasBestProps
            /\ UNCHANGED <<pc, bestSplitProp, registry, addCtrCalls>>
       ELSE /\ registry' = CreateRegistry(registry, BestCtr, BestBorders[BestDevice])
            /\ addCtrCalls' = IF IsKnown(registry, BestCtr) THEN addCtrCalls
                              ELSE [addCtrCalls EXCEPT ![BestCtr] = @ + 1]
            /\ bestSplitProp' = CreateBestSplitProperties(registry')
            /\ \/ /\ error' = ""
                  /\ UNCHANGED pc
               \/ /\ ~(BestBin < GetBorders(registry', GetId(registry', BestCtr)).size)
                  /\ pc' = "aborted"
                  /\ error' = "Y_ASSERT(splitProperties.BinId < borders.size())"
    /\ UNCHANGED <<depth, result, bestSplit, isTreeCtrSplit, treeCtrSplitBits, outstanding,
                   ctrDataSetsHelperPtr, usedPermutations, permutation, counters, broke>>
    /\ UNCHANGED <<searcherVars, treeCtrsEnabled, adding, visitorVars, workerVars, reported,
                   inOrder, seeded, lowestCompleted>>
    /\ UNCHANGED dataVars

\* GetBestSplitBits() called on the visitor
HGetBestSplitBits ==
    /\ pc = "harness"
    /\ IF EnsureHasBestProps # ""
       THEN /\ error' = EnsureHasBestProps
            /\ UNCHANGED treeCtrSplitBits
       ELSE /\ treeCtrSplitBits' = BestSplits[BestDevice]
            /\ error' = ""
    /\ UNCHANGED <<depth, result, bestSplitProp, bestSplit, isTreeCtrSplit, outstanding,
                   ctrDataSetsHelperPtr, usedPermutations, permutation, counters, broke>>
    /\ UNCHANGED <<searcherVars, pc, managerVars, visitorVars, workerVars, observerVars>>
    /\ UNCHANGED dataVars

NextVisitor ==
    \/ HSetBestScore
    \/ HVisit
    \/ HJoin
    \/ HCreateBestSplitProperties
    \/ HGetBestSplitBits
    \/ \E d \in Devices : Worker(d)

SpecVisitor == InitVisitor /\ [][NextVisitor]_vars

\* ------------------- TOptimizationSubsets on its own (SpecSubsets)

\* the sizes a learn, test or single-task slice takes
SliceSizes == {0, 1, 2}
\* the values FoldBasedTasks.size() takes in fold-based mode
TaskCounts == {1, 2, 3}
\* the slice sizes of a searcher with that many tasks: three tasks get
\* slices of at most one document
TaskSliceSizes(k) == IF k > 2 THEN {0, 1} ELSE SliceSizes

RECURSIVE Pow2(_)
\* 1 << n
Pow2(n) == IF n = 0 THEN 1 ELSE 2 * Pow2(n - 1)

\* IntLog2(values): the number of bits that hold values different ids
IntLog2(values) == CHOOSE k \in 0 .. 8 : Pow2(k) >= values /\ (k = 0 \/ Pow2(k - 1) < values)

RECURSIVE SumSeq(_, _)
\* the sum of the first n elements of a sequence of numbers
SumSeq(q, n) == IF n = 0 THEN 0 ELSE q[n] + SumSeq(q, n - 1)

\* GetTotalIndicesSize()
GetTotalIndicesSize ==
    IF SingleTaskTarget
    THEN sliceSizes.single
    ELSE SumSeq(sliceSizes.learn, Len(FoldBasedTasks)) + SumSeq(sliceSizes.test, Len(FoldBasedTasks))

RECURSIVE MakeTaskSlicesFrom(_, _)
\* the loop of MakeTaskSlices for the tasks t, t + 1, ...; w holds slices
\* and cursor
MakeTaskSlicesFrom(t, w) ==
    IF t > Len(FoldBasedTasks)
    THEN w
    ELSE LET learn == [Left |-> w.cursor, Right |-> w.cursor + sliceSizes.learn[t]]
             test == [Left |-> learn.Right, Right |-> learn.Right + sliceSizes.test[t]]
         IN MakeTaskSlicesFrom(t + 1, [slices |-> w.slices \o <<learn, test>>,
                                       cursor |-> test.Right])

\* MakeTaskSlices(): the learn and the test slice of every task, in
\* insertion order
MakeTaskSlices == MakeTaskSlicesFrom(1, [slices |-> <<>>, cursor |-> 0]).slices

\* a cursor that passes the learn slices only
LearnSliceLearnOnly(t) ==
    LET cursor == SumSeq(sliceSizes.learn, t - 1)
    IN [Left |-> cursor, Right |-> cursor + sliceSizes.learn[t]]

\* ForeachOptimizationPartTask: the learn and test slices of task t, from
\* the cursor that has passed the tasks before it
LearnSlice(t) ==
    LET cursor == SumSeq(sliceSizes.learn, t - 1) + SumSeq(sliceSizes.test, t - 1)
    IN [Left |-> cursor, Right |-> cursor + sliceSizes.learn[t]]

TestSlice(t) ==
    [Left |-> LearnSlice(t).Right, Right |-> LearnSlice(t).Right + sliceSizes.test[t]]

\* FillBuffer(buffer.SliceView(slice), value); position i of the sequence
\* is element i - 1 of the buffer
FillSlice(buffer, slice, value) ==
    [i \in 1 .. Len(buffer) |->
        IF slice.Left <= i - 1 /\ i - 1 < slice.Right THEN value ELSE buffer[i]]

\* a buffer after Reset: n elements nothing has written
Unwritten == -1
ResetBuffer(n) == [i \in 1 .. n |-> Unwritten]

\* a test bin that leaves the range of its task
TestBinShifted(currentBin) == currentBin + 2

\* the bin of the learn part and of the test part of the task at currentBin
LearnBin(currentBin) == currentBin
TestBin(currentBin) == currentBin + 1

RECURSIVE WriteFoldBasedTasks(_, _)
\* the lambda of WriteFoldBasedInitialBins run for the tasks t, t + 1, ...;
\* w holds bins, parts, currentBin and cursor
WriteFoldBasedTasks(t, w) ==
    IF t > Len(FoldBasedTasks)
    THEN w
    ELSE LET learnSize == LearnSlice(t).Right - LearnSlice(t).Left
             testSize == TestSlice(t).Right - TestSlice(t).Left
         IN WriteFoldBasedTasks(t + 1,
              [bins |-> FillSlice(FillSlice(w.bins, LearnSlice(t), LearnBin(w.currentBin)),
                                  TestSlice(t), TestBin(w.currentBin)),
               parts |-> w.parts \o <<[Offset |-> w.cursor, Size |-> learnSize],
                                      [Offset |-> w.cursor + learnSize, Size |-> testSize]>>,
               currentBin |-> w.currentBin + 2,
               cursor |-> w.cursor + learnSize + testSize])

\* WriteFoldBasedInitialBins(bins): the bins and the parts it returns
WriteFoldBasedInitialBins ==
    WriteFoldBasedTasks(1, [bins |-> ResetBuffer(GetTotalIndicesSize), parts |-> <<>>,
                            currentBin |-> 0, cursor |-> 0])

\* WriteSingleTaskInitialBins(bins)
WriteSingleTaskInitialBins ==
    [bins |-> [i \in 1 .. sliceSizes.single |-> 0],
     parts |-> <<[Offset |-> 0, Size |-> sliceSizes.single]>>]

\* MakeSequence(indices): 0, 1, 2, ...
MakeSequence(n) == [i \in 1 .. n |-> i - 1]

\* the number of elements of a sequence of bins below a partition id
CountBelow(bins, p) == Cardinality({i \in 1 .. Len(bins) : bins[i] < p})

\* the number of elements of a sequence of bins equal to a partition id
CountEqual(bins, p) == Cardinality({i \in 1 .. Len(bins) : bins[i] = p})

\* TOptimizationSubsets::Update(): the boundaries of the partitions of the
\* current depth, counted from Bins
Update(sub) ==
    LET count == Pow2(sub.FoldBits + sub.CurrentDepth)
        Below(p) == CountBelow(sub.Bins, p)
        Equal(p) == CountEqual(sub.Bins, p)
    IN [sub EXCEPT !.Partitions =
           [q \in 1 .. count |-> [Offset |-> Below(q - 1), Size |-> Equal(q - 1)]]]

\* A searcher with its tasks or its target set, of every combination of
\* slice sizes, about to run CreateSubsets
InitSubsets ==
    /\ \/ /\ SingleTaskTarget = TRUE /\ FoldBasedTasks = <<>>
          /\ \E n \in SliceSizes : sliceSizes = [single |-> n, learn |-> <<>>, test |-> <<>>]
       \/ /\ SingleTaskTarget = FALSE
          /\ \E k \in TaskCounts :
                /\ FoldBasedTasks = [t \in 1 .. k |-> t]
                /\ \E l \in [1 .. k -> TaskSliceSizes(k)], e \in [1 .. k -> TaskSliceSizes(k)] :
                      sliceSizes = [single |-> 0, learn |-> l, test |-> e]
    /\ subsets = NoSubsets
    /\ SeedsUnused
    /\ UpdaterUnused
    /\ BuffersUnused
    /\ TargetUnused
    /\ AppUnused
    /\ hasTargetCtrs = TRUE
    /\ maxDepth \in DepthLimits
    /\ bootstrapTestOnly = FALSE
    /\ pc = "create_subsets"
    /\ error = ""
    /\ depth = 0
    /\ result = <<>>
    /\ bestSplitProp = NoSplitProp
    /\ bestSplit = NoSplit
    /\ isTreeCtrSplit = FALSE
    /\ treeCtrSplitBits = NoBits
    /\ outstanding = {}
    /\ ctrDataSetsHelperPtr = FALSE
    /\ usedPermutations = 0
    /\ permutation = 0
    /\ treeCtrsEnabled = FALSE
    /\ registry = [c \in Ctrs |-> Unregistered]
    /\ adding = NoCtr
    /\ VisitorConstructed
    /\ WorkersIdle
    /\ reported = Infinity
    /\ inOrder = NoOrdered
    /\ addCtrCalls = [c \in Ctrs |-> 0]
    /\ seeded = Infinity
    /\ lowestCompleted = Infinity
    /\ counters = NoCounters
    /\ broke = FALSE

\* a table that leaves out the bits of the folds
maxPartCountNoFoldBits(foldBits, depthLimit) == Pow2(depthLimit)

\* ui32 maxPartCount = 1 << (subsets.FoldBits + maxDepth)
maxPartCount(foldBits, depthLimit) == Pow2(foldBits + depthLimit)

\* the parts CreateSubsets gets from the initial bins
InitParts ==
    IF SingleTaskTarget = FALSE THEN WriteFoldBasedInitialBins ELSE WriteSingleTaskInitialBins

\* CreateSubsets(maxDepth, src)
CreateSubsets ==
    /\ pc = "create_subsets"
    /\ LET foldCount == Len(InitParts.parts)
       IN subsets' = Update([Bins |-> InitParts.bins,
                             Indices |-> MakeSequence(Len(InitParts.bins)),
                             Partitions |-> <<>>,
                             MaxPartCount |-> maxPartCount(IntLog2(foldCount), maxDepth),
                             CurrentDepth |-> 0,
                             FoldCount |-> foldCount,
                             FoldBits |-> IntLog2(foldCount)])
    /\ pc' = "subsets"
    /\ UNCHANGED <<searcherVars, error, fitVars, managerVars, visitorVars, workerVars, observerVars>>
    /\ UNCHANGED <<sliceSizes, seedVars, configVars, targetVars, appVars, updaterVars, bufferVars>>

\* bit k of a bin
BinBit(bin, k) == (bin \div Pow2(k)) % 2

\* UpdateBins of Split: every document gets the bit of the new split above
\* the bits its bin has
UpdateBins(sub, bits) ==
    [sub EXCEPT !.Bins = [i \in 1 .. Len(sub.Bins) |->
        sub.Bins[i] + bits[i] * Pow2(sub.FoldBits + sub.CurrentDepth)]]

\* ReorderBins of Split: Bins and Indices are reordered by the new bit,
\* keeping the order inside each half
ReorderBins(sub) ==
    LET n == Len(sub.Bins)
        k == sub.FoldBits + sub.CurrentDepth
        positions == [i \in 1 .. n |-> i]
        order == SelectSeq(positions, LAMBDA i : BinBit(sub.Bins[i], k) = 0)
                 \o SelectSeq(positions, LAMBDA i : BinBit(sub.Bins[i], k) = 1)
    IN [sub EXCEPT !.Bins = [i \in 1 .. n |-> sub.Bins[order[i]]],
                   !.Indices = [i \in 1 .. n |-> sub.Indices[order[i]]]]

\* subsets.Split(docBins, observationIndices), as Fit calls it: not at the
\* last depth.  The bins are updated and reordered, the depth is counted
\* and the partitions are recomputed.
Split ==
    /\ pc = "subsets"
    /\ subsets.CurrentDepth + 1 # maxDepth
    /\ \E bits \in [1 .. Len(subsets.Bins) -> {0, 1}] :
          subsets' = Update([ReorderBins(UpdateBins(subsets, bits)) EXCEPT !.CurrentDepth = @ + 1])
    /\ UNCHANGED <<searcherVars, pc, error, fitVars, managerVars, visitorVars, workerVars,
                   observerVars>>
    /\ UNCHANGED <<sliceSizes, seedVars, configVars, targetVars, appVars, updaterVars, bufferVars>>

NextSubsets ==
    \/ CreateSubsets
    \/ Split

SpecSubsets == InitSubsets /\ [][NextSubsets]_vars

\* ------------------------- the seeds of the visitor (SpecSeeds)

\* a number below 2^31 as a ui64
ToUi64(n) == <<n % Limb, (n \div Limb) % Limb, (n \div Limb) \div Limb, 0>>

\* a + b in ui64: the limbs are added with carry, the carry out of the
\* highest limb is dropped
Add64(a, b) ==
    LET s1 == a[1] + b[1]
        s2 == a[2] + b[2] + s1 \div Limb
        s3 == a[3] + b[3] + s2 \div Limb
        s4 == a[4] + b[4] + s3 \div Limb
    IN <<s1 % Limb, s2 % Limb, s3 % Limb, s4 % Limb>>

\* the constants of SetScoreStdDevAndSeed
SeedMultiplier == 664525
SeedIncrement == 1013904223

\* a seed that is the same on every device
DeviceSeedNoIndex(seed, i) == Add64(seed, ToUi64(SeedIncrement))

\* seed + 664525 * i + 1013904223, evaluated left to right; the product of
\* the int and the ui32 device index stays below 2^31 for the devices here
DeviceSeed(seed, i) == Add64(Add64(seed, ToUi64(SeedMultiplier * i)), ToUi64(SeedIncrement))

\* the base seeds and the tensor hashes followed
SeedValues == {Zero64, <<1, 0, 0, 0>>, <<Limb - 1, Limb - 1, 0, 0>>, Max64}
HashValues == {Zero64, <<12345, 1, 0, 0>>, Max64}

\* A visitor just constructed, and data sets with any hashes
InitSeeds ==
    /\ FoldBasedTasks = <<>>
    /\ SingleTaskTarget = FALSE
    /\ pc = "seed"
    /\ error = ""
    /\ depth = 0
    /\ result = <<>>
    /\ bestSplitProp = NoSplitProp
    /\ bestSplit = NoSplit
    /\ isTreeCtrSplit = FALSE
    /\ treeCtrSplitBits = NoBits
    /\ outstanding = {}
    /\ ctrDataSetsHelperPtr = FALSE
    /\ usedPermutations = 0
    /\ permutation = 0
    /\ treeCtrsEnabled = TRUE
    /\ registry = [c \in Ctrs |-> Unregistered]
    /\ adding = NoCtr
    /\ VisitorConstructed
    /\ WorkersIdle
    /\ reported = Infinity
    /\ inOrder = NoOrdered
    /\ addCtrCalls = [c \in Ctrs |-> 0]
    /\ seeded = Infinity
    /\ lowestCompleted = Infinity
    /\ counters = NoCounters
    /\ broke = FALSE
    /\ sliceSizes = NoSizes
    /\ subsets = NoSubsets
    /\ SeedsConstructed
    /\ baseSeed = Zero64
    /\ tensorHash \in [DataSets -> HashValues]
    /\ taskSeed = [ds \in DataSets |-> NoSeed]
    /\ UpdaterUnused
    /\ BuffersUnused
    /\ TargetUnused
    /\ AppUnused
    /\ hasTargetCtrs = TRUE
    /\ maxDepth = MaxDepth
    /\ bootstrapTestOnly = FALSE

\* SetScoreStdDevAndSeed(scoreStdDev, seed)
SetScoreStdDevAndSeed ==
    /\ pc = "seed"
    /\ \E seed \in SeedValues :
          /\ baseSeed' = seed
          /\ Seeds' = [i \in Devices |-> DeviceSeed(seed, i)]
    /\ pc' = "seed_visit"
    /\ UNCHANGED <<tensorHash, taskSeed>>
    /\ UNCHANGED <<searcherVars, error, fitVars, managerVars, visitorVars, workerVars, observerVars>>
    /\ UNCHANGED <<subsetVars, configVars, targetVars, appVars, updaterVars, bufferVars>>

\* Accept(ctrDataSet, ...), line 87: the taskSeed of the data set.  The
\* calls for the data sets come in any order.
AcceptTaskSeed(ds) ==
    /\ pc = "seed_visit"
    /\ taskSeed[ds] = NoSeed
    /\ taskSeed' = [taskSeed EXCEPT ![ds] = Add64(Seeds[DataSetDevice(ds)], tensorHash[ds])]
    /\ UNCHANGED <<Seeds, baseSeed, tensorHash>>
    /\ UNCHANGED mainVars
    /\ UNCHANGED <<subsetVars, configVars, targetVars, appVars, updaterVars, bufferVars>>

NextSeeds ==
    \/ SetScoreStdDevAndSeed
    \/ \E ds \in DataSets : AcceptTaskSeed(ds)

SpecSeeds == InitSeeds /\ [][NextSeeds]_vars

\* ---------------- BuildTreeSearchTarget on its own (SpecTarget)

\* the values SetRandomStrength is given
Strengths == {0, 1}
\* the derivatives GradientAtZero writes for a document
Gradients == {0, 1}
\* the weights BootstrapedWeights returns for a document
BootstrapWeights == {0, 2}
\* the slice sizes of a searcher with that many tasks
TargetSliceSizes(k) == IF k > 1 THEN {0, 1} ELSE {0, 1, 2}
\* GetWeights() of a target with n documents: every document of the
\* searcher has a weight of its own
TargetWeights(first, n) == [j \in 1 .. n |-> first + j]

\* buffer.SliceView(slice).Copy(src); position i of the sequence is
\* element i - 1 of the buffer
CopySlice(buffer, slice, src) ==
    [i \in 1 .. Len(buffer) |->
        IF slice.Left <= i - 1 /\ i - 1 < slice.Right THEN src[i - slice.Left] ELSE buffer[i]]

RECURSIVE CopyTaskWeights(_, _, _)
\* the loop that copies the weights of the tasks t, t + 1, ... into their
\* slices of target.Weights
CopyTaskWeights(t, slices, buffer) ==
    IF t > Len(FoldBasedTasks)
    THEN buffer
    ELSE CopyTaskWeights(t + 1, slices,
            CopySlice(CopySlice(buffer, slices[2 * t - 1], weights.learn[t]),
                      slices[2 * t], weights.test[t]))

RECURSIVE DotProduct(_, _, _)
\* DotProduct(view, view) of the view of a buffer from position left up to
\* right
DotProduct(buffer, left, right) ==
    IF left >= right THEN 0
    ELSE buffer[right] * buffer[right] + DotProduct(buffer, left, right - 1)

RECURSIVE TestSum2(_, _, _)
\* sum2 after the RandomStrength loop has passed the tasks 1 .. t
TestSum2(t, slices, buffer) ==
    IF t = 0 THEN 0
    ELSE TestSum2(t - 1, slices, buffer)
         + DotProduct(buffer, slices[2 * t].Left, slices[2 * t].Right)

RECURSIVE TestCount(_, _)
\* count after the RandomStrength loop has passed the tasks 1 .. t
TestCount(t, slices) ==
    IF t = 0 THEN 0
    ELSE TestCount(t - 1, slices) + (slices[2 * t].Right - slices[2 * t].Left)

\* a bootstrap that is left as it is on the learn slices
FillLearnSlicesNothing(t, slices, buffer) == buffer

RECURSIVE FillLearnSlices(_, _, _)
\* FillBuffer(weights.SliceView(learnSlice), 1.0f) for the tasks t, t + 1, ...
FillLearnSlices(t, slices, buffer) ==
    IF t > Len(FoldBasedTasks)
    THEN buffer
    ELSE FillLearnSlices(t + 1, slices, FillSlice(buffer, slices[2 * t - 1], 1))

\* MultiplyVector(x, y): x after the element-wise product
MultiplyVector(x, y) == [i \in 1 .. Len(x) |-> x[i] * y[i]]

\* the deviation computed whenever there are tasks
NoiseComputedAlways(strength) == Len(FoldBasedTasks) > 0

\* if (FoldBasedTasks.size()) { ... if (RandomStrength) { ... } }
NoiseComputed(strength) == Len(FoldBasedTasks) > 0 /\ strength # 0

\* A searcher with its tasks or its target set, before Fit builds the
\* search target
InitTarget ==
    /\ \/ /\ SingleTaskTarget = TRUE /\ FoldBasedTasks = <<>>
          /\ \E n \in {1, 2} :
                /\ sliceSizes = [single |-> n, learn |-> <<>>, test |-> <<>>]
                /\ weights = [single |-> TargetWeights(1, n), learn |-> <<>>, test |-> <<>>]
       \/ /\ SingleTaskTarget = FALSE
          /\ \E k \in {1, 2} :
                /\ FoldBasedTasks = [t \in 1 .. k |-> t]
                /\ \E l \in [1 .. k -> TargetSliceSizes(k)], e \in [1 .. k -> TargetSliceSizes(k)] :
                      /\ sliceSizes = [single |-> 0, learn |-> l, test |-> e]
                      /\ weights = [single |-> <<>>,
                                    learn |-> [t \in 1 .. k |-> TargetWeights(10 * t, l[t])],
                                    test |-> [t \in 1 .. k |-> TargetWeights(10 * t + 5, e[t])]]
    /\ bootstrapTestOnly \in BOOLEAN
    /\ RandomStrength = 0
    /\ ScoreStdDev = ZeroStdDev
    /\ target = NoTarget
    /\ gradient = <<>>
    /\ bootstrap = <<>>
    /\ AppUnused
    /\ subsets = NoSubsets
    /\ SeedsUnused
    /\ UpdaterUnused
    /\ BuffersUnused
    /\ hasTargetCtrs = TRUE
    /\ maxDepth = MaxDepth
    /\ pc = "target"
    /\ error = ""
    /\ depth = 0
    /\ result = <<>>
    /\ bestSplitProp = NoSplitProp
    /\ bestSplit = NoSplit
    /\ isTreeCtrSplit = FALSE
    /\ treeCtrSplitBits = NoBits
    /\ outstanding = {}
    /\ ctrDataSetsHelperPtr = FALSE
    /\ usedPermutations = 0
    /\ permutation = 0
    /\ treeCtrsEnabled = FALSE
    /\ registry = [c \in Ctrs |-> Unregistered]
    /\ adding = NoCtr
    /\ VisitorConstructed
    /\ WorkersIdle
    /\ reported = Infinity
    /\ inOrder = NoOrdered
    /\ addCtrCalls = [c \in Ctrs |-> 0]
    /\ seeded = Infinity
    /\ lowestCompleted = Infinity
    /\ counters = NoCounters
    /\ broke = FALSE

\* SetRandomStrength(strength)
SetRandomStrength ==
    /\ pc = "target"
    /\ RandomStrength' \in Strengths \ {RandomStrength}
    /\ UNCHANGED <<ScoreStdDev, weights, target, gradient, bootstrap>>
    /\ UNCHANGED mainVars
    /\ UNCHANGED <<subsetVars, seedVars, configVars, appVars, updaterVars, bufferVars>>

\* BuildTreeSearchTarget(), as Fit calls it, up to the bootstrap: the
\* gradients and the weights in their slices and the deviation of the
\* score noise
BuildGradientTarget ==
    /\ pc = "target"
    /\ (Len(FoldBasedTasks) > 0) = (SingleTaskTarget = FALSE)
    /\ LET slices == MakeTaskSlices
           tasks == Len(FoldBasedTasks)
           size == IF tasks > 0 THEN slices[Len(slices)].Right ELSE Len(weights.single)
           copied == IF tasks > 0
                     THEN CopyTaskWeights(1, slices, ResetBuffer(size))
                     ELSE weights.single
       IN \E g \in [1 .. size -> Gradients] :
             /\ gradient' = g
             /\ target' = [WeightedTarget |-> g, Weights |-> copied]
             /\ ScoreStdDev' = IF NoiseComputed(RandomStrength)
                               THEN [strength |-> RandomStrength,
                                     sum2 |-> TestSum2(tasks, slices, g),
                                     count |-> TestCount(tasks, slices)]
                               ELSE ScoreStdDev
    /\ bootstrap' = <<>>
    /\ pc' = "bootstrap"
    /\ UNCHANGED <<RandomStrength, weights>>
    /\ UNCHANGED <<searcherVars, error, fitVars, managerVars, visitorVars, workerVars, observerVars>>
    /\ UNCHANGED <<subsetVars, seedVars, configVars, appVars, updaterVars, bufferVars>>

\* the rest of BuildTreeSearchTarget(): the bootstrap weights, left out on
\* the learn slices when the bootstrap is for the test documents only, and
\* the two products
BuildBootstrap ==
    /\ pc = "bootstrap"
    /\ \E b \in [1 .. Len(target.Weights) -> BootstrapWeights] :
          LET multiplier == IF bootstrapTestOnly
                            THEN FillLearnSlices(1, MakeTaskSlices, b)
                            ELSE b
              Weights == MultiplyVector(target.Weights, multiplier)
          IN /\ bootstrap' = b
             /\ target' = [WeightedTarget |-> MultiplyVector(target.WeightedTarget, Weights),
                           Weights |-> Weights]
    /\ pc' = "target"
    /\ UNCHANGED <<RandomStrength, ScoreStdDev, weights, gradient>>
    /\ UNCHANGED <<searcherVars, error, fitVars, managerVars, visitorVars, workerVars, observerVars>>
    /\ UNCHANGED <<subsetVars, seedVars, configVars, appVars, updaterVars, bufferVars>>

NextTarget ==
    \/ SetRandomStrength
    \/ BuildGradientTarget
    \/ BuildBootstrap

SpecTarget == InitTarget /\ [][NextTarget]_vars

\* ------------------------------------------ Train of mode_fit.cpp (SpecTrain)

\* GetAutoStopPval(): negative, zero, positive
PValues == {-1, 0, 1}
\* GetIterationCount()
IterationCounts == {1, 2}

\* the main thread inside Train
TrainIdle ==
    /\ error = ""
    /\ depth = 0
    /\ result = <<>>
    /\ bestSplitProp = NoSplitProp
    /\ bestSplit = NoSplit
    /\ isTreeCtrSplit = FALSE
    /\ treeCtrSplitBits = NoBits
    /\ outstanding = {}
    /\ ctrDataSetsHelperPtr = FALSE
    /\ usedPermutations = 0
    /\ permutation = 0
    /\ treeCtrsEnabled = FALSE
    /\ registry = [c \in Ctrs |-> Unregistered]
    /\ adding = NoCtr
    /\ VisitorConstructed
    /\ WorkersIdle
    /\ reported = Infinity
    /\ inOrder = NoOrdered
    /\ addCtrCalls = [c \in Ctrs |-> 0]
    /\ seeded = Infinity
    /\ lowestCompleted = Infinity
    /\ counters = NoCounters
    /\ broke = FALSE

\* Train is entered with its options and its test set, or none
InitTrain ==
    /\ boostingOptions \in [IsCalcScores : BOOLEAN, UseBestModel : BOOLEAN,
                            AutoStopPval : PValues, IterationCount : IterationCounts]
    /\ testData \in BOOLEAN
    /\ learnPrinter = FALSE
    /\ testPrinter = FALSE
    /\ overfitDetector = FALSE
    /\ boosting = NoBoosting
    /\ model = NoModel
    /\ pc = "train"
    /\ SingleTaskTarget = FALSE /\ FoldBasedTasks = <<>>
    /\ TrainIdle
    /\ sliceSizes = NoSizes /\ subsets = NoSubsets /\ SeedsUnused /\ UpdaterUnused
    /\ BuffersUnused
    /\ TargetUnused
    /\ ClassifierUnused
    /\ hasTargetCtrs = TRUE
    /\ maxDepth = MaxDepth
    /\ bootstrapTestOnly = FALSE

\* the detector is asked for: if (odOptions.GetAutoStopPval() > 0), inside
\* if (boostingOptions.IsCalcScores()) and if (test)
DetectorCreated(options, test) ==
    options.IsCalcScores /\ test /\ options.AutoStopPval > 0

SkipsShrinkingNever(printer) == FALSE

\* if (testPrinter == nullptr)
SkipsShrinking(printer) == printer = FALSE

\* the boosting is made and given the iteration printer and the time writer
TrainSetUp ==
    /\ pc = "train"
    /\ boosting' = [boosting EXCEPT !.learnListeners = <<"iterationPrinter", "timeWriter">>]
    /\ pc' = "printers"
    /\ UNCHANGED <<boostingOptions, testData, learnPrinter, testPrinter, overfitDetector, model>>
    /\ UNCHANGED <<searcherVars, error, fitVars, managerVars, visitorVars, workerVars, observerVars>>
    /\ UNCHANGED <<subsetVars, seedVars, configVars, targetVars, classifierVars, updaterVars, bufferVars>>

\* the metric printers and the overfitting detector are made
TrainCreatePrinters ==
    /\ pc = "printers"
    /\ learnPrinter' = boostingOptions.IsCalcScores
    /\ testPrinter' = (boostingOptions.IsCalcScores /\ testData)
    /\ overfitDetector' = DetectorCreated(boostingOptions, testData)
    /\ boosting' = [boosting EXCEPT !.odDetector = DetectorCreated(boostingOptions, testData)]
    /\ pc' = "listeners"
    /\ UNCHANGED <<boostingOptions, testData, model>>
    /\ UNCHANGED <<searcherVars, error, fitVars, managerVars, visitorVars, workerVars, observerVars>>
    /\ UNCHANGED <<subsetVars, seedVars, configVars, targetVars, classifierVars, updaterVars, bufferVars>>

\* the printers and the detector that exist are given to the boosting
TrainRegister ==
    /\ pc = "listeners"
    /\ boosting' = [boosting EXCEPT
                       !.learnListeners = IF learnPrinter THEN @ \o <<"learnPrinter">> ELSE @,
                       !.testListeners = IF testPrinter THEN @ \o <<"testPrinter">> ELSE @,
                       !.detectors = IF overfitDetector THEN @ \o <<"overfitDetector">> ELSE @]
    /\ pc' = "run"
    /\ UNCHANGED <<boostingOptions, testData, learnPrinter, testPrinter, overfitDetector, model>>
    /\ UNCHANGED <<searcherVars, error, fitVars, managerVars, visitorVars, workerVars, observerVars>>
    /\ UNCHANGED <<subsetVars, seedVars, configVars, targetVars, classifierVars, updaterVars, bufferVars>>

\* auto model = boosting.Run(): a detector may stop the boosting early, and
\* a test listener has seen its best iteration
TrainRun ==
    /\ pc = "run"
    /\ \E n \in 1 .. boostingOptions.IterationCount :
          /\ boosting.detectors = <<>> => n = boostingOptions.IterationCount
          /\ model' = [trees |-> n, shrunk |-> FALSE, till |-> 0]
          /\ \E b \in 0 .. n - 1 :
                /\ boosting.testListeners = <<>> => b = 0
                /\ boosting' = [boosting EXCEPT !.bestIteration = b]
    /\ pc' = "best"
    /\ UNCHANGED <<boostingOptions, testData, learnPrinter, testPrinter, overfitDetector>>
    /\ UNCHANGED <<searcherVars, error, fitVars, managerVars, visitorVars, workerVars, observerVars>>
    /\ UNCHANGED <<subsetVars, seedVars, configVars, targetVars, classifierVars, updaterVars, bufferVars>>

\* if (boostingOptions.UseBestModel()) ... return model
TrainUseBestModel ==
    /\ pc = "best"
    /\ IF boostingOptions.UseBestModel
       THEN IF SkipsShrinking(testPrinter)
            THEN /\ pc' = "returned"
                 /\ UNCHANGED <<model, error>>
            ELSE IF testPrinter
                 THEN /\ model' = [model EXCEPT !.shrunk = TRUE,
                                                !.till = boosting.bestIteration]
                      /\ pc' = "returned"
                      /\ UNCHANGED error
                 ELSE /\ error' = "Condition violated: `testPrinter'"
                      /\ pc' = "failed"
                      /\ UNCHANGED model
       ELSE /\ pc' = "returned"
            /\ UNCHANGED <<model, error>>
    /\ UNCHANGED <<boostingOptions, testData, learnPrinter, testPrinter, overfitDetector, boosting>>
    /\ UNCHANGED <<searcherVars, fitVars, managerVars, visitorVars, workerVars, observerVars>>
    /\ UNCHANGED <<subsetVars, seedVars, configVars, targetVars, classifierVars, updaterVars, bufferVars>>

NextTrain ==
    \/ TrainSetUp
    \/ TrainCreatePrinters
    \/ TrainRegister
    \/ TrainRun
    \/ TrainUseBestModel

\* Train is straight-line code on the calling thread: it keeps running
SpecTrain == InitTrain /\ [][NextTrain]_vars /\ WF_vars(NextTrain)

\* ------------------------------------- TTargetClassifier (SpecClassifier)

\* the borders and the targets tried
FloatValues == {Num(v) : v \in 0 .. 3} \cup {NaN}
BorderCounts == 0 .. 3

GreaterOrEqual(a, b) == ~a.nan /\ ~b.nan /\ a.value >= b.value

\* a > b on doubles: false when either is not a number
Greater(a, b) == ~a.nan /\ ~b.nan /\ a.value > b.value

\* the while loop of GetTargetClass, entered with resClass
RECURSIVE GetTargetClassFrom(_, _)
GetTargetClassFrom(t, resClass) ==
    IF resClass < Len(Borders) /\ Greater(t, Borders[resClass + 1])
    THEN GetTargetClassFrom(t, resClass + 1)
    ELSE resClass

\* int GetTargetClass(double target) const
GetTargetClass(t) == GetTargetClassFrom(t, 0)

\* int GetClassesCount() const
GetClassesCount == Len(Borders) + 1

\* TTargetClassifier(borders)
InitClassifier ==
    /\ \E n \in BorderCounts : Borders \in [1 .. n -> FloatValues]
    /\ classified = NotClassified
    /\ pc = "classifier"
    /\ SingleTaskTarget = FALSE /\ FoldBasedTasks = <<>>
    /\ TrainIdle
    /\ sliceSizes = NoSizes /\ subsets = NoSubsets /\ SeedsUnused /\ UpdaterUnused
    /\ BuffersUnused
    /\ TargetUnused
    /\ TrainUnused
    /\ hasTargetCtrs = TRUE
    /\ maxDepth = MaxDepth
    /\ bootstrapTestOnly = FALSE

\* a call of GetTargetClass(target)
Classify ==
    /\ pc = "classifier"
    /\ \E t \in FloatValues :
          classified' = [target |-> t, resClass |-> GetTargetClass(t)]
    /\ UNCHANGED Borders
    /\ UNCHANGED mainVars
    /\ UNCHANGED <<subsetVars, seedVars, configVars, targetVars, trainVars, updaterVars, bufferVars>>

NextClassifier == Classify

SpecClassifier == InitClassifier /\ [][NextClassifier]_vars

\* ------------------------------------------------------------------ claims

\* positions of Fit after the duplicate check of the current depth
AfterDuplicateCheck == {"add_split", "subsets", "push"}

\* positions of Fit at which the split of the current depth is chosen
SplitChosen == {"ensure", "duplicate", "add_split", "subsets", "push", "cache"}

C2_MinimizationCorrect ==
    pc \in SplitChosen /\ counters.submit = depth + 1 => bestSplitProp.Score <= reported

\* C2 witness: a tree-CTR candidate with the lowest score was chosen over a
\* static best with a higher score, while another candidate scored higher
C2_Witness ==
    /\ pc = "ensure" /\ isTreeCtrSplit
    /\ bestSplitProp.Score = 1 /\ reported = 1
    /\ inOrder.Score = 1

\* C3 (as claimed): no worker ends in an assertion failure or an error of
\* AddCtr, and AddCtr is never invoked for a CTR that is known.
C3_RegistrationRaceIsBenign ==
    /\ \A d \in Devices : wpc[d] # "assert_failed"
    /\ error # "AddCtr: ctr is already known"

\* C4 (as claimed): AddCtr is executed at most once for every CTR, exactly
\* once for a registered one, and registered ids are pairwise distinct.
C4_RegisteredExactlyOnce ==
    /\ \A c \in Ctrs : addCtrCalls[c] <= 1
    /\ \A c \in Ctrs : registry[c].known => addCtrCalls[c] = 1
    /\ \A c, k \in Ctrs : registry[c].known /\ registry[k].known /\ c # k
                              => registry[c].id # registry[k].id

\* C5 (as claimed): every write to the best tracker and every change of the
\* registry happens while the visitor's lock is held.
C5_EveryWriteUnderLock ==
    [][(trackerVars' # trackerVars \/ registry' # registry)
           => (Lock # Free \/ Lock' # Free)]_vars

\* a worker is inside a section that writes the tracker or the registry
InWriteSection(d) == wpc[d] \in {"update_compare", "cache_store"}

\* C5 (amended): a worker is inside a writing section only while it holds
\* the lock, so no two workers are inside one at once; while the workers
\* run, the tracker and the registry change only in steps of the lock
\* holder; the thread that runs Fit writes them (SetBestScore, the AddCtr of
\* CreateBestSplitProperties) without the lock, only when no worker runs.
C5_WritesAreExclusive ==
    /\ [](\A d \in Devices : InWriteSection(d) => Lock = d)
    /\ [](adding # NoCtr => Lock \in Devices /\ wpc[Lock] = "cache_store")
    /\ [][(trackerVars' # trackerVars \/ registry' # registry)
             => IF Visiting
                THEN Lock \in Devices /\ InWriteSection(Lock) /\ wpc'[Lock] # wpc[Lock]
                ELSE Lock = Free /\ \A d \in Devices : wpc[d] = "idle"]_vars

\* C5 witness: worker 1 is comparing under the lock while worker 0 waits
\* for the lock with a candidate of its own
C5_Witness ==
    /\ pc = "visit" /\ Lock = 1
    /\ wpc[1] = "update_compare" /\ wpc[0] = "update_lock"

\* C6 (as claimed): the visitor's choice does not depend on the interleaving
\* of the workers: it is the choice of the run that visits the data sets one
\* after another in enumeration order.
C6_ChoiceIsInterleavingIndependent ==
    pc = "has_split" /\ VisitorHasSplit => BestCtr = inOrder.ctr /\ BestBin = inOrder.bin

\* C7: barriers.  The first read of a depth finds no submitted job
\* outstanding; the barrier before it had all six submissions of the three
\* helpers issued; the submissions of a depth start with nothing
\* outstanding, in particular not the previous depth's subsets.Split.
C7_BarrierBeforeRead ==
    /\ pc = "read" => outstanding = {}
    /\ pc = "wait2" => StaticJobs \subseteq outstanding
    /\ pc = "submit" => outstanding = {}
    /\ pc = "compute" => outstanding = {"submit:bin", "submit:dense", "submit:ctr"}

\* C7 witness: the reads of depth 1, after depth 0 has split the subsets
C7_Witness ==
    pc = "read" /\ depth = 1 /\ counters.subsetsSplit = 1 /\ counters.submit = 2

\* the message of the CB_ENSURE on the best split
NoSplitError == "Error: something went wrong, best split is NaN with score"

\* C8: the sentinel is never applied.  Past the check the best split and the
\* binary split have a feature, no split of the tree is the sentinel, and
\* Fit fails with the error exactly on the sentinel, before anything of that
\* depth was applied and without returning a tree.
C8_SentinelNeverApplied ==
    /\ pc \in {"duplicate"} \cup AfterDuplicateCheck =>
          bestSplitProp.FeatureId # NoFeature /\ bestSplit.FeatureId # NoFeature
    /\ \A i \in 1 .. Len(result) : result[i].FeatureId # NoFeature
    /\ error = NoSplitError =>
          /\ pc = "failed"
          /\ bestSplitProp.FeatureId = NoFeature
          /\ Len(result) = depth
          /\ counters.addSplit = depth
          /\ counters.subsetsSplit = depth
          /\ counters.ctrAddSplit <= depth
          /\ counters.cacheBins = 0

\* C8 witness: at depth 1, after one split was applied, no helper and no
\* tensor had a candidate and Fit failed
C8_Witness ==
    pc = "failed" /\ error = NoSplitError /\ depth = 1 /\ Len(result) = 1

\* the visitor's extraction precondition fails
NoBestProps == BestDevice < 0 \/ BestBin > MaxBinId

\* C9: CreateBestSplitProperties and GetBestSplitBits called without an
\* improving candidate, or with a best bin above 255, fail with the error
\* of EnsureHasBestProps and leave the registry (and what they return) as
\* it was; no AddCtr is made.
C9_ExtractionPrecondition ==
    [][(HCreateBestSplitProperties \/ HGetBestSplitBits) /\ NoBestProps
           => /\ error' \in {"Error: no good split in visitor found", "BestBin <= 255"}
              /\ registry' = registry
              /\ addCtrCalls' = addCtrCalls
              /\ bestSplitProp' = bestSplitProp
              /\ treeCtrSplitBits' = treeCtrSplitBits]_vars

\* C9 witness: an extraction failed on the bin budget with a best CTR that
\* is not registered
C9_Witness ==
    /\ pc = "harness" /\ error = "BestBin <= 255"
    /\ BestDevice >= 0 /\ BestBin > MaxBinId
    /\ ~IsKnown(registry, BestCtr)

\* fold-based tasks and a single-task target at once
Mixed == Len(FoldBasedTasks) > 0 /\ SingleTaskTarget

\* C10: the task modes are never mixed; AddTask after SetTarget, SetTarget
\* after AddTask and a second SetTarget fail and change neither
\* FoldBasedTasks nor SingleTaskTarget; Fit fails without task and target.
C10_TaskModesNotMixed ==
    /\ []~Mixed
    /\ [][/\ AddTask /\ SingleTaskTarget
             => error' # "" /\ UNCHANGED searcherVars
          /\ SetTarget /\ (SingleTaskTarget \/ Len(FoldBasedTasks) > 0)
             => error' # "" /\ UNCHANGED searcherVars
          /\ FitBegin /\ Len(FoldBasedTasks) = 0 /\ ~SingleTaskTarget
             => error' # "" /\ pc' = "failed" /\ UNCHANGED searcherVars]_vars

\* C10 witness: SetTarget was refused after an AddTask
C10_Witness ==
    /\ pc = "setup" /\ error = "Can't mix foldBased and singleTask targets"
    /\ Len(FoldBasedTasks) = 1 /\ ~SingleTaskTarget

\* Fit has returned, thrown, or the process was aborted by an assertion
FitEnded == pc \in {"done", "failed", "aborted"}

\* C11: termination and size bound.  The depth loop starts at most maxDepth
\* iterations, the tree never has more than maxDepth splits, and under a
\* fair schedule of the Fit thread and the workers Fit ends: it returns the
\* tree or fails on a precondition.
C11_FitTerminates ==
    /\ [](depth <= maxDepth /\ Len(result) <= maxDepth /\ counters.submit <= maxDepth)
    /\ [](pc = "done" => counters.cacheBins = 1 /\ Len(result) = depth)
    /\ <>FitEnded

\* C11 witness: Fit ran all MaxDepth iterations and returned a full tree
C11_Witness ==
    /\ pc = "done" /\ ~broke /\ maxDepth = MaxDepth
    /\ Len(result) = MaxDepth /\ counters.submit = MaxDepth

\* some visited data set reported a score strictly below the seeded one
SomeCandidateBelowSeed == inOrder.ds # 0

\* C12: the visitor supersedes only when strictly better.  When all data
\* sets are visited the visitor has a split exactly when a visited data
\* set reported a score strictly below the static best it was seeded with.
\* Then Fit goes on with the visitor's split (lowest reported score, the
\* id of a tree CTR, the bitset of the best device) and the tree updater
\* gets AddSplit(split, bits); otherwise the static best stays and the
\* tree updater gets AddSplit(split).
C12_VisitorSupersedes ==
    /\ [](pc = "has_split" => (VisitorHasSplit <=> SomeCandidateBelowSeed))
    /\ [][FitTakeVisitorSplit /\ pc' = "ensure" =>
             IF SomeCandidateBelowSeed
             THEN /\ isTreeCtrSplit'
                  /\ bestSplitProp'.Score = inOrder.Score
                  /\ bestSplitProp'.Score < bestSplitProp.Score
                  /\ bestSplitProp'.FeatureId >= FirstTreeCtrId
                  /\ treeCtrSplitBits' = BestSplits[BestDevice]
                  /\ treeCtrSplitBits'.size > 0
             ELSE /\ ~isTreeCtrSplit'
                  /\ bestSplitProp' = bestSplitProp
                  /\ treeCtrSplitBits' = NoBits]_vars
    /\ [](pc \in {"subsets", "push"} =>
             /\ "bins:bits" \in outstanding <=> isTreeCtrSplit
             /\ "bins" \in outstanding <=> ~isTreeCtrSplit)

\* C12 witness: a tree-CTR split with score 1 superseded the static best
\* and was applied with its bitset
C12_Witness ==
    /\ pc = "subsets" /\ isTreeCtrSplit
    /\ "bins:bits" \in outstanding
    /\ bestSplitProp.Score = 1 /\ treeCtrSplitBits.size > 0

\* C12 witness of the other side: the visitor ran, a data set reported the
\* seeded score itself, and the static split was applied without a bitset
C12_WitnessStatic ==
    /\ pc = "subsets" /\ ~isTreeCtrSplit /\ usedPermutations > 0
    /\ "bins" \in outstanding

\* what UpdateBestSplit can write
bestVars == <<BestScore, BestBin, BestDevice, BestCtr, BestSplits, BestBorders, registry>>

\* C13: only the improving worker materializes.  The comparison of a
\* candidate that is not strictly below BestScore changes nothing of the
\* tracker, the slots and the registry and ends the call.  A strictly
\* lower candidate is recorded while its worker holds the lock, and only
\* the materialization of that call writes slots: the bitset slot of its
\* own device and, when the CTR is not known, the borders slot of its own
\* device; the registry is not written.  So the bitset slot of the best
\* device holds the best candidate once all calls have returned.
C13_OnlyImprovingMaterializes ==
    /\ [][\A d \in Devices :
             /\ WUpdateCompare(d) /\ ~(wcand[d].Score < BestScore) =>
                   UNCHANGED bestVars /\ wpc'[d] # "materialize"
             /\ WUpdateCompare(d) /\ wcand[d].Score < BestScore =>
                   /\ Lock = d
                   /\ BestScore' = wcand[d].Score /\ BestBin' = wcand[d].BinId
                   /\ BestDevice' = d /\ BestCtr' = CandidateCtr(d)
                   /\ wpc'[d] = "materialize"
                   /\ UNCHANGED <<BestSplits, BestBorders, registry>>
             /\ WMaterialize(d) =>
                   /\ BestSplits'[d] = CompressedSplit(CandidateCtr(d), wcand[d].BinId)
                   /\ \A e \in Devices \ {d} :
                         BestSplits'[e] = BestSplits[e] /\ BestBorders'[e] = BestBorders[e]
                   /\ BestBorders'[d] # BestBorders[d] =>
                         BestBorders'[d] = ReadBorders(CandidateCtr(d))
                   /\ IsKnown(registry, CandidateCtr(d)) /\ adding = NoCtr =>
                         BestBorders'[d] = BestBorders[d]
                   /\ UNCHANGED <<BestScore, BestBin, BestDevice, BestCtr, registry>>
             /\ (BestSplits'[d] # BestSplits[d] \/ BestBorders'[d] # BestBorders[d]) /\ Visiting =>
                   WMaterialize(d)]_vars
    /\ [](pc \in {"has_split", "harness"} /\ VisitorHasSplit /\ error = "" =>
             BestSplits[BestDevice] = CompressedSplit(BestCtr, BestBin))

\* C13 witness: worker 1 has recorded a lower score and is about to
\* materialize; worker 0 compares a candidate that is not lower, with the
\* slot of its device still empty
C13_Witness ==
    /\ pc = "visit" /\ BestDevice = 1 /\ wpc[1] = "materialize"
    /\ wpc[0] = "update_compare" /\ Lock = 0
    /\ wcand[0].Score >= BestScore /\ BestSplits[0] = NoBits

\* Fit is between the construction of the visitor and its last use
VisitorEngaged == pc \in {"permutation", "visit", "has_split"}

\* C14 (as claimed): the visitor is constructed and data sets are scored
\* only with tree CTRs enabled, a used permutation and a static best split
\* as baseline; before the first Accept its BestScore is that split's score.
C14_EngagedOnlyWithBaseline ==
    /\ VisitorEngaged =>
          /\ treeCtrsEnabled
          /\ usedPermutations > 0
          /\ bestSplitProp.FeatureId # NoFeature
    /\ pc = "permutation" /\ permutation = 1 => BestScore = bestSplitProp.Score

\* the partitions follow one another from offset 0
PartitionsContiguous ==
    /\ Len(subsets.Partitions) > 0 => subsets.Partitions[1].Offset = 0
    /\ \A q \in 1 .. Len(subsets.Partitions) - 1 :
          subsets.Partitions[q + 1].Offset
              = subsets.Partitions[q].Offset + subsets.Partitions[q].Size

\* the documents in the range of a partition are the documents of its bin
PartitionsHoldTheirBin ==
    \A q \in 1 .. Len(subsets.Partitions) :
       \A i \in 1 .. Len(subsets.Bins) :
          (subsets.Partitions[q].Offset < i
               /\ i <= subsets.Partitions[q].Offset + subsets.Partitions[q].Size)
             <=> subsets.Bins[i] = q - 1

\* the sizes of all partitions together
PartitionSizes ==
    SumSeq([q \in 1 .. Len(subsets.Partitions) |-> subsets.Partitions[q].Size],
           Len(subsets.Partitions))

\* C15: partition coverage.  After CreateSubsets and after every Split the
\* partitions are contiguous ranges that follow one another from 0, each
\* holds exactly the documents of its bin, their sizes sum to the number of
\* documents (all learn and test slices, or the single target), Indices is
\* a permutation of the documents, and before the first Split the
\* partitions are the parts the initial bins were written for.
C15_PartitionCoverage ==
    pc = "subsets" =>
       /\ Len(subsets.Bins) = GetTotalIndicesSize
       /\ \A i \in 1 .. Len(subsets.Bins) : subsets.Bins[i] # Unwritten
       /\ Len(subsets.Partitions) = Pow2(subsets.FoldBits + subsets.CurrentDepth)
       /\ Len(subsets.Partitions) <= subsets.MaxPartCount
       /\ PartitionsContiguous
       /\ PartitionsHoldTheirBin
       /\ PartitionSizes = GetTotalIndicesSize
       /\ {subsets.Indices[i] : i \in 1 .. Len(subsets.Indices)} = 0 .. (GetTotalIndicesSize - 1)
       /\ subsets.CurrentDepth = 0 =>
             \A q \in 1 .. subsets.FoldCount : subsets.Partitions[q] = InitParts.parts[q]

\* C15 witness: two tasks with a learn and a test slice of two documents
\* each, all four slices cut in half by a Split
C15_Witness ==
    /\ pc = "subsets" /\ Len(FoldBasedTasks) = 2 /\ subsets.CurrentDepth = 1
    /\ Len(subsets.Partitions) = 8
    /\ \A q \in 1 .. 8 : subsets.Partitions[q].Size = 1

\* C16: the apply step of a depth.  For a split that is not a duplicate
\* Fit calls the tree updater first, then subsets.Split if and only if
\* depth + 1 is not maxDepth, with it the AddSplit of the CTR data-set
\* helper if and only if the helper exists, and appends the split last.
\* A returned tree of n splits has seen n tree updater calls and
\* min(n, maxDepth - 1) calls of subsets.Split.
C16_ApplyStep ==
    /\ [](pc = "add_split" =>
            /\ ~HasSplit(result, bestSplit) /\ Len(result) = depth
            /\ counters.addSplit = depth /\ counters.subsetsSplit = depth)
    /\ [](pc = "subsets" =>
            /\ Len(result) = depth
            /\ counters.addSplit = depth + 1 /\ counters.subsetsSplit = depth)
    /\ [](pc = "push" =>
            /\ Len(result) = depth
            /\ counters.addSplit = depth + 1
            /\ counters.subsetsSplit = Min(depth + 1, maxDepth - 1))
    /\ [][FitSplitSubsets =>
            /\ counters'.subsetsSplit =
                  counters.subsetsSplit + (IF depth + 1 # maxDepth THEN 1 ELSE 0)
            /\ counters'.ctrAddSplit =
                  counters.ctrAddSplit
                     + (IF depth + 1 # maxDepth /\ ctrDataSetsHelperPtr THEN 1 ELSE 0)
            /\ ("split" \in outstanding') = (depth + 1 # maxDepth)
            /\ result' = result]_vars
    /\ [][FitPushSplit => result' = Append(result, bestSplit) /\ counters' = counters]_vars
    /\ [](pc = "done" =>
            /\ counters.addSplit = Len(result)
            /\ counters.subsetsSplit = Min(Len(result), maxDepth - 1)
            /\ counters.ctrAddSplit <= counters.subsetsSplit)

\* C16 witness: a full tree was returned; the last depth did not split the
\* subsets, the depths before it did and notified the helper
C16_Witness ==
    /\ pc = "done" /\ maxDepth = MaxDepth /\ Len(result) = MaxDepth
    /\ counters.addSplit = MaxDepth
    /\ counters.subsetsSplit = MaxDepth - 1
    /\ counters.ctrAddSplit = MaxDepth - 1

\* C17: the tree is append-only and duplicate-free.  During Fit every
\* change of result.Splits appends one split at the end and keeps the
\* splits before it, and the splits of the tree are pairwise distinct.
C17_AppendOnlyDuplicateFree ==
    /\ [][result' # result =>
            /\ Len(result') = Len(result) + 1
            /\ SubSeq(result', 1, Len(result)) = result
            /\ ~HasSplit(result, result'[Len(result')])]_vars
    /\ [](\A i, j \in 1 .. Len(result) : i # j => result[i] # result[j])

\* C17 witness: Fit returned a tree of two different splits
C17_Witness ==
    pc = "done" /\ Len(result) = 2 /\ result[1] # result[2]

\* (seed + 664525 * i + 1013904223) mod 2^64
ClaimedDeviceSeed(seed, i) == Add64(seed, ToUi64(SeedMultiplier * i + SeedIncrement))

\* C18: the seeds are a function of the base seed.  After
\* SetScoreStdDevAndSeed(seed) the seed of device i is
\* (seed + 664525 * i + 1013904223) mod 2^64 and the seeds of two devices
\* differ; the taskSeed of a data set on device d is
\* (Seeds[d] + hash of its base tensor) mod 2^64, whatever the order of the
\* Accept calls, and no Accept changes Seeds.
C18_SeedDerivation ==
    /\ [](pc = "seed_visit" =>
            /\ \A i \in Devices : Seeds[i] = ClaimedDeviceSeed(baseSeed, i)
            /\ \A i, j \in Devices : i # j => Seeds[i] # Seeds[j]
            /\ \A ds \in DataSets :
                  taskSeed[ds] # NoSeed =>
                     taskSeed[ds] = Add64(ClaimedDeviceSeed(baseSeed, DataSetDevice(ds)),
                                          tensorHash[ds]))
    /\ [][(\E ds \in DataSets : AcceptTaskSeed(ds)) => Seeds' = Seeds]_vars

\* C18 witness: the sum wraps around 2^64: the base seed is 2^64 - 1, and
\* the data set of device 1, whose tensor hashes to 2^64 - 1 as well, has
\* its taskSeed before the data sets of device 0 have theirs
C18_Witness ==
    /\ pc = "seed_visit" /\ baseSeed = Max64 /\ tensorHash[2] = Max64
    /\ taskSeed[2] = ToUi64(SeedMultiplier + SeedIncrement - 2)
    /\ taskSeed[1] = NoSeed /\ taskSeed[3] = NoSeed

\* the worker has issued SubmitCompute for the data set it visits
Scored(d) == wpc[d] \in {"update_lock", "update_compare", "materialize"}

\* C19 (as claimed): when Accept has issued SubmitCompute for a data set,
\* every CTR of the data set with IsNeedToCacheBorders is registered.
C19_BordersCachedBeforeScoring ==
    \A d \in Devices :
       Visiting /\ Scored(d) =>
          \A i \in 1 .. Len(DataSetCtrs(CurrentDataSet(d))) :
             IsNeedToCacheBorders(DataSetCtrs(CurrentDataSet(d))[i]) =>
                IsKnown(registry, DataSetCtrs(CurrentDataSet(d))[i])

C21_FirstSplitKept ==
    /\ [](pc = "duplicate" /\ depth = 0 => result = <<>> /\ ~HasSplit(result, bestSplit))
    /\ [][FitCheckDuplicate /\ depth = 0 => pc' = "add_split" /\ ~broke']_vars
    /\ [](broke => depth >= 1 /\ Len(result) >= 1)
    /\ [](pc = "done" => Len(result) >= 1)
    /\ [](pc = "done" /\ maxDepth = 1 => Len(result) = 1 /\ ~broke)

\* C21 witness: Fit returned a tree of one split with a depth limit of 1
C21_Witness ==
    pc = "done" /\ maxDepth = 1 /\ Len(result) = 1 /\ counters.cacheBins = 1

\* the number of initial partitions: 2 per fold-based task, 1 for a single
\* target
InitialPartitions == IF SingleTaskTarget THEN 1 ELSE 2 * Len(FoldBasedTasks)

\* C22 (as claimed): the Partitions table has exactly foldCount << maxDepth
\* entries for every foldCount, powers of two or not.
C22_CapacityIsFoldCountShifted ==
    pc = "subsets" =>
       /\ subsets.FoldCount = InitialPartitions
       /\ subsets.MaxPartCount = subsets.FoldCount * Pow2(maxDepth)

\* C22 (amended): the table has 1 << (FoldBits + maxDepth) entries, where
\* FoldBits = IntLog2(foldCount) is the number of bits that hold the
\* initial partitions.  That is foldCount << maxDepth exactly when
\* foldCount is a power of two and more otherwise.  At every depth reached
\* the partitions in use, and every bin of a document, are below the
\* capacity.
C22_CapacityCoversPartitions ==
    pc = "subsets" =>
       /\ subsets.FoldCount = InitialPartitions
       /\ subsets.FoldBits = IntLog2(subsets.FoldCount)
       /\ subsets.MaxPartCount = Pow2(subsets.FoldBits + maxDepth)
       /\ subsets.MaxPartCount >= subsets.FoldCount * Pow2(maxDepth)
       /\ (subsets.MaxPartCount = subsets.FoldCount * Pow2(maxDepth))
             <=> (subsets.FoldCount = Pow2(subsets.FoldBits))
       /\ subsets.CurrentDepth < maxDepth
       /\ Len(subsets.Partitions) = Pow2(subsets.FoldBits + subsets.CurrentDepth)
       /\ Len(subsets.Partitions) <= subsets.MaxPartCount
       /\ \A i \in 1 .. Len(subsets.Bins) :
             0 <= subsets.Bins[i] /\ subsets.Bins[i] < Len(subsets.Partitions)

\* C22 witness: three tasks, six initial partitions held in three bits;
\* after the Split of depth 0 a document of the last test slice is in the
\* right half, in a bin above 6 << 1
C22_Witness ==
    /\ pc = "subsets" /\ subsets.FoldCount = 6 /\ subsets.FoldBits = 3
    /\ subsets.CurrentDepth = 1 /\ maxDepth = 2
    /\ subsets.MaxPartCount = 32
    /\ \E i \in 1 .. Len(subsets.Bins) : subsets.Bins[i] = 13

\* C23: the cached bins match the returned tree.  CacheBinsForModel is
\* called once, after the loop, on every return of Fit (loop exhausted or
\* early stop) and on no failure; it gets the returned tree and bins that
\* hold exactly the splits of that tree, in order.  A duplicate that ends
\* the loop is not applied to the bins.
C23_CachedBinsMatchTree ==
    /\ [](Len(cached) = counters.cacheBins /\ Len(docBins) = counters.addSplit)
    /\ [](pc = "done" =>
            /\ Len(cached) = 1
            /\ cached[1].tree = result
            /\ cached[1].bins = result
            /\ counters.addSplit = Len(result))
    /\ [](pc # "done" => cached = <<>>)
    /\ [][cached' # cached => pc = "cache" /\ pc' = "done" /\ docBins = result]_vars
    /\ [][FitCheckDuplicate /\ HasSplit(result, bestSplit) =>
            pc' = "cache" /\ docBins' = docBins /\ counters' = counters]_vars

\* C23 witness: Fit stopped early at depth 1 of 2 and cached the bins of
\* the one split it returned
C23_Witness ==
    /\ pc = "done" /\ broke /\ maxDepth = 2
    /\ Len(result) = 1 /\ Len(cached) = 1 /\ cached[1].bins = <<result[1]>>

\* every Accept call of the visitor has returned without an exception
AcceptsCompleted == pc \in {"has_split", "harness"} /\ error = ""

InAccept(d) == pc = "visit" /\ wpc[d] \notin {"idle", "done", "failed"}

\* C25: the lock is held only to compare and publish.  A worker holds the
\* lock only during the comparison of UpdateBestSplit and during the AddCtr
\* of CacheCtrBorders; the steps that compute scores, read borders and
\* materialize the bitset are taken without it and leave it alone; the
\* comparison releases it on both branches.  Under a fair schedule every
\* worker gets through the Accept calls of all its data sets: each call
\* returns or throws, or the process is aborted by an assertion.
C25_LockOnlyToPublish ==
    /\ [](\A d \in Devices :
            Lock = d /\ pc # "aborted" => wpc[d] \in {"update_compare", "cache_store"})
    /\ [][\A d \in Devices :
            /\ WCacheCheck(d) \/ WScore(d) \/ WMaterialize(d) => Lock # d /\ Lock' = Lock
            /\ WUpdateCompare(d) => Lock = d /\ Lock' = Free
            /\ WCacheStore(d) => Lock = d /\ Lock' = Free]_vars
    /\ \A d \in Devices :
          InAccept(d) ~> (wpc[d] \in {"done", "failed"} \/ pc = "aborted")

\* C25 witness: worker 0 materializes its bitset outside the lock while
\* worker 1 holds the lock for its comparison
C25_Witness ==
    /\ pc = "visit" /\ wpc[0] = "materialize" /\ Lock = 1 /\ wpc[1] = "update_compare"

\* the visitor has no best candidate and its slots are empty
VisitorFresh ==
    /\ Lock = Free /\ BestDevice = -1 /\ BestBin = NoBin /\ BestCtr = NoCtr
    /\ BestBorders = [d \in Devices |-> NoBorders]
    /\ BestSplits = [d \in Devices |-> NoBits]

\* C26: the visitor's best state is per depth.  At every depth that
\* engages it the visitor starts without a best device and bin, with empty
\* slots and with BestScore equal to the static best score of that depth;
\* no visitor state is left once the depth has taken its split, so what
\* the slots hold was written by the workers of the same depth.  The
\* registry is kept from depth to depth.
C26_VisitorPerDepth ==
    /\ [](pc = "permutation" /\ permutation = 1 =>
            VisitorFresh /\ BestScore = bestSplitProp.Score)
    /\ [](pc \in {"setup", "gather", "wait1", "submit", "compute", "wait2", "read", "ctrs",
                  "ensure", "duplicate", "add_split", "subsets", "push", "cache", "done"} =>
            VisitorFresh /\ BestScore = Infinity)
    /\ [][(BestSplits' # BestSplits \/ BestBorders' # BestBorders) /\ ~FitTakeVisitorSplit =>
            pc = "visit" /\ \E d \in Devices : WMaterialize(d)]_vars
    /\ [][FitTakeVisitorSplit \/ FitTreeCtrs \/ FitPushSplit =>
            \A c \in Ctrs : registry[c].known => registry'[c] = registry[c]]_vars

\* C26 witness: at depth 1 a fresh visitor is about to start; the CTR that
\* won depth 0 is in the tree and in the registry
C26_Witness ==
    /\ pc = "permutation" /\ permutation = 1 /\ depth = 1
    /\ VisitorFresh /\ BestScore = bestSplitProp.Score
    /\ registry[2].known /\ result[1].FeatureId = registry[2].id


\* SubmitCompute accumulates statistics for every feature of its helper:
\* the buffers read are those handed to a helper that has features, which
\* the helper of the target CTRs has only when the data set has target CTRs
BuffersRead(given) ==
    {given.bin, given.dense} \cup (IF hasTargetCtrs THEN {given.ctr} ELSE {})

\* C27: in every depth iteration the observation orders are gathered anew
\* from the current subsets.Indices before the SubmitCompute calls of that
\* depth (directObservationIndices when the data set has target CTRs), so
\* no helper with features reads what the visitor of the previous depth or
\* subsets.Split left in a buffer.
C27_FreshAtSubmit ==
    /\ [](pc = "submit" =>
             /\ observationIndices = Gathered
             /\ hasTargetCtrs => directObservationIndices = Gathered)
    /\ [][FitSubmitCompute => BuffersRead(handed') = {Gathered}]_vars

\* second depth, after a visitor pass and a subsets.Split: the three helpers
\* were handed orders gathered from the split Indices
C27_Witness ==
    /\ pc = "compute" /\ depth = 1 /\ IndicesVersion = 1
    /\ hasTargetCtrs /\ ctrDataSetsHelperPtr /\ usedPermutations > 0
    /\ handed = [bin |-> Gathered, dense |-> Gathered, ctr |-> Gathered]


\* C28: every split of the tree has type TakeBin when the Features Manager
\* reports its feature as categorical and TakeGreater otherwise, and the
\* split appended at a depth carries the feature id and the bin of the best
\* split properties chosen at that depth.
C28_SplitTypeFollowsKind ==
    /\ [](\A i \in DOMAIN result :
             /\ IsCat(result[i].FeatureId) => result[i].SplitType = "TakeBin"
             /\ ~IsCat(result[i].FeatureId) => result[i].SplitType = "TakeGreater")
    /\ [][FitPushSplit =>
             /\ Len(result') = Len(result) + 1
             /\ SubSeq(result', 1, Len(result)) = result
             /\ result'[Len(result')].FeatureId = bestSplitProp.FeatureId
             /\ result'[Len(result')].BinIdx = bestSplitProp.BinId]_vars

\* a tree with a one-hot split and a threshold split
C28_Witness ==
    /\ Len(result) = 2
    /\ result[1].SplitType = "TakeBin"
    /\ result[2].SplitType = "TakeGreater"


\* C29: at the start of every depth iteration d of Fit the tree has exactly
\* d splits, the tree updater has applied exactly d splits, the same ones,
\* and subsets.Split has been called exactly d times.
C29_CountersAligned ==
    pc = "gather" =>
       /\ Len(result) = depth
       /\ counters.addSplit = depth
       /\ docBins = result
       /\ counters.subsetsSplit = depth

\* the start of the second iteration
C29_Witness == pc = "gather" /\ depth = 1 /\ Len(result) = 1 /\ counters.subsetsSplit = 1


\* C30: over the lifetime of one visitor after seeding, BestScore never
\* increases and BestDevice, once non-negative, stays non-negative; in
\* every state BestScore is at most the seeded score and at most the score
\* of every candidate whose UpdateBestSplit critical section has completed;
\* HasSplit() is true exactly when some completed candidate was strictly
\* below the seeded score.
C30_BestScoreMonotone ==
    /\ [](/\ BestScore <= seeded
          /\ BestScore <= lowestCompleted
          /\ VisitorHasSplit <=> lowestCompleted < seeded)
    /\ [][~(HSetBestScore \/ FitTreeCtrs \/ FitTakeVisitorSplit) =>
             /\ BestScore' <= BestScore
             /\ BestDevice >= 0 => BestDevice' >= 0]_vars

\* a second pass over the data sets of a visitor that was seeded with a
\* finite score and holds a split from a candidate below it
C30_Witness ==
    /\ pc = "h_visit" /\ permutation = 2
    /\ seeded < Infinity /\ lowestCompleted < seeded
    /\ VisitorHasSplit /\ BestScore = lowestCompleted
    /\ \E d \in Devices : wpc[d] = "done"


\* C31: for the fold-based tasks i = 0 .. n-1 in insertion order,
\* WriteFoldBasedInitialBins gives bin 2i to every learn document and bin
\* 2i+1 to every test document of task i, returns the partitions learn_0,
\* test_0, learn_1, test_1, ... laid out back to back from offset 0, and
\* uses the slices that MakeTaskSlices computes; CreateSubsets stores these
\* bins.
C31_InitialFoldLayout ==
    SingleTaskTarget = FALSE =>
       LET n == Len(FoldBasedTasks)
           w == WriteFoldBasedInitialBins
           slices == MakeTaskSlices
       IN /\ Len(slices) = 2 * n /\ Len(w.parts) = 2 * n
          /\ \A i \in 0 .. n - 1 :
                /\ slices[2 * i + 1] = LearnSlice(i + 1)
                /\ slices[2 * i + 2] = TestSlice(i + 1)
                /\ \A p \in 1 .. Len(w.bins) :
                      /\ slices[2 * i + 1].Left < p /\ p <= slices[2 * i + 1].Right
                            => w.bins[p] = 2 * i
                      /\ slices[2 * i + 2].Left < p /\ p <= slices[2 * i + 2].Right
                            => w.bins[p] = 2 * i + 1
          /\ \A k \in 1 .. 2 * n :
                /\ w.parts[k].Offset = slices[k].Left
                /\ w.parts[k].Size = slices[k].Right - slices[k].Left
                /\ w.parts[k].Offset = IF k = 1 THEN 0
                                       ELSE w.parts[k - 1].Offset + w.parts[k - 1].Size
          /\ Len(w.bins) = slices[2 * n].Right
          /\ \A p \in 1 .. Len(w.bins) : w.bins[p] # Unwritten
          /\ pc = "subsets" /\ subsets.CurrentDepth = 0 =>
                subsets.Bins = w.bins /\ subsets.FoldCount = 2 * n

\* CreateSubsets has laid out two tasks with learn slices of 1 and 2 and
\* test slices of 2 and 1 documents
C31_Witness ==
    /\ pc = "subsets" /\ subsets.CurrentDepth = 0
    /\ SingleTaskTarget = FALSE /\ Len(FoldBasedTasks) = 2
    /\ sliceSizes.learn = <<1, 2>> /\ sliceSizes.test = <<2, 1>>
    /\ subsets.Bins = <<0, 1, 1, 2, 2, 3>>
    /\ MakeTaskSlices = <<[Left |-> 0, Right |-> 1], [Left |-> 1, Right |-> 3],
                          [Left |-> 3, Right |-> 5], [Left |-> 5, Right |-> 6]>>


RECURSIVE OriginalWeights(_)
\* the weights of the documents of the tasks 1 .. t as the targets hold
\* them, learn before test, task after task
OriginalWeights(t) ==
    IF t = 0 THEN <<>>
    ELSE OriginalWeights(t - 1) \o weights.learn[t] \o weights.test[t]

\* the weight every position of the search target had before the bootstrap
Original == IF SingleTaskTarget THEN weights.single ELSE OriginalWeights(Len(FoldBasedTasks))

\* position p of the search target lies in the test slice of a task
InTestSlice(p) ==
    \E t \in 1 .. Len(FoldBasedTasks) :
       MakeTaskSlices[2 * t].Left < p /\ p <= MakeTaskSlices[2 * t].Right

\* BuildTreeSearchTarget has returned a target
TargetBuilt == pc = "target" /\ target # NoTarget

\* C32 (as claimed): with IsBootstrapTestOnly() only the weights of the
\* test slices are multiplied by the bootstrap weights and every other
\* document keeps its weight; without it every document's weight is
\* multiplied by its bootstrap weight.
C32_OnlyTestSlicesBootstrapped ==
    TargetBuilt =>
       \A p \in 1 .. Len(target.Weights) :
          target.Weights[p] = IF bootstrapTestOnly /\ ~InTestSlice(p)
                              THEN Original[p]
                              ELSE Original[p] * bootstrap[p]

\* C32 (amended): with IsBootstrapTestOnly() and fold-based tasks the
\* documents of the learn slices keep their weights and the weights of the
\* test slices are multiplied by the bootstrap weights; without the option,
\* and for a single-task target with or without it, every document's
\* weight is multiplied by its bootstrap weight.
C32_LearnSlicesKeepWeights ==
    TargetBuilt =>
       /\ Len(target.Weights) = Len(Original)
       /\ \A p \in 1 .. Len(target.Weights) :
             target.Weights[p] =
                IF bootstrapTestOnly /\ ~SingleTaskTarget /\ ~InTestSlice(p)
                THEN Original[p]
                ELSE Original[p] * bootstrap[p]

\* two tasks of one learn and one test document each, bootstrap for the
\* test documents only: the learn documents were drawn out of the
\* bootstrap and keep their weights
C32_Witness ==
    /\ TargetBuilt /\ bootstrapTestOnly
    /\ Len(FoldBasedTasks) = 2
    /\ sliceSizes.learn = <<1, 1>> /\ sliceSizes.test = <<1, 1>>
    /\ bootstrap = <<0, 2, 0, 0>>
    /\ target.Weights = <<11, 32, 21, 0>>


RECURSIVE TestSquares(_, _)
\* the sum of the squares of the first n elements of a buffer that lie in
\* test slices
TestSquares(buffer, n) ==
    IF n = 0 THEN 0
    ELSE (IF InTestSlice(n) THEN buffer[n] * buffer[n] ELSE 0) + TestSquares(buffer, n - 1)

\* the number of positions of a buffer that lie in test slices
TestPositions(buffer) == Cardinality({p \in 1 .. Len(buffer) : InTestSlice(p)})

\* C33: the deviation of the score noise is recomputed by
\* BuildTreeSearchTarget only when the searcher has fold-based tasks and
\* RandomStrength is not zero, and then from the gradients of the test
\* slices only; in single-task mode or with RandomStrength = 0 it keeps its
\* value, nothing else writes it, and it is 0.0 until a Fit has computed
\* one (so it is always 0.0 in single-task mode).
C33_NoiseOnlyFoldBased ==
    /\ [][BuildGradientTarget =>
             ScoreStdDev' = IF Len(FoldBasedTasks) > 0 /\ RandomStrength # 0
                            THEN [strength |-> RandomStrength,
                                  sum2 |-> TestSquares(gradient', Len(gradient')),
                                  count |-> TestPositions(gradient')]
                            ELSE ScoreStdDev]_vars
    /\ [][ScoreStdDev' # ScoreStdDev =>
             BuildGradientTarget /\ Len(FoldBasedTasks) > 0 /\ RandomStrength # 0]_vars
    /\ [](SingleTaskTarget => ScoreStdDev = ZeroStdDev)
    /\ [](target = NoTarget /\ pc = "target" => IsZeroStdDev(ScoreStdDev))

\* a target built with RandomStrength 0 after one built with RandomStrength
\* 1: the deviation is still the one of the earlier gradients, which had
\* both test documents at 1, while the test gradients are 0 now
C33_Witness ==
    /\ TargetBuilt /\ RandomStrength = 0
    /\ Len(FoldBasedTasks) = 2
    /\ sliceSizes.learn = <<1, 1>> /\ sliceSizes.test = <<1, 1>>
    /\ gradient = <<1, 0, 1, 0>>
    /\ ScoreStdDev = [strength |-> 1, sum2 |-> 2, count |-> 2]

\* C34: a missing test set does not make Train fail. With use-best-model
\* requested and no test set, the step after boosting.Run() leaves the model
\* as boosting returned it, and Train returns: it never fails and always
\* reaches its return. The model is shrunk only when the test metric printer
\* exists, and then to the best iteration that printer saw. The overfitting
\* detector exists, is registered with the test printer and is added to the
\* boosting only when scores are calculated, a test set was given and the
\* auto-stop p-value is positive.
C34_MissingTestSetHandled ==
    /\ [][TrainUseBestModel /\ boostingOptions.UseBestModel /\ ~testData =>
             model' = model /\ pc' = "returned" /\ error' = ""]_vars
    /\ [](pc # "failed")
    /\ <>(pc = "returned")
    /\ [](pc = "returned" => model.trees >= 1)
    /\ [](model.shrunk =>
             /\ testPrinter
             /\ boostingOptions.UseBestModel
             /\ model.till = boosting.bestIteration)
    /\ [](overfitDetector \/ boosting.odDetector \/ boosting.detectors # <<>> =>
             /\ boostingOptions.IsCalcScores
             /\ testData
             /\ boostingOptions.AutoStopPval > 0)

\* Train returned a two-tree model unshrunk: use-best-model was requested,
\* scores were calculated, and there was no test set
C34_Witness ==
    /\ pc = "returned"
    /\ boostingOptions.UseBestModel
    /\ boostingOptions.IsCalcScores
    /\ boostingOptions.AutoStopPval > 0
    /\ ~testData
    /\ model = [trees |-> 2, shrunk |-> FALSE, till |-> 0]

\* border is strictly less than t, both numbers
StrictlyBelow(border, t) == ~border.nan /\ ~t.nan /\ border.value < t.value
\* the length of the longest prefix of Borders strictly below t
LongestPrefixBelow(t) ==
    CHOOSE n \in 0 .. Len(Borders) :
        /\ \A i \in 1 .. n : StrictlyBelow(Borders[i], t)
        /\ n < Len(Borders) => ~StrictlyBelow(Borders[n + 1], t)
AscendingBorders ==
    \A i \in 1 .. Len(Borders) - 1 :
        ~Borders[i].nan /\ ~Borders[i + 1].nan /\ Borders[i].value <= Borders[i + 1].value

\* C35: whatever the borders and the target, GetTargetClass returns the length
\* of the longest prefix of Borders whose elements are all strictly less than
\* the target; the result is a class of 0 .. GetClassesCount() - 1, and
\* GetClassesCount() is the number of borders plus one; a target equal to the
\* border at position i (from 0) gets a class of at most i, and exactly i when
\* the borders before it are below the target; and over ascending borders a
\* larger target never gets a smaller class.
C35_ClassIsPrefixBelowTarget ==
    /\ GetClassesCount = Len(Borders) + 1
    /\ classified # NotClassified =>
          /\ classified.resClass = LongestPrefixBelow(classified.target)
          /\ classified.resClass \in 0 .. GetClassesCount - 1
          /\ \A i \in 1 .. Len(Borders) :
                ~Borders[i].nan /\ Borders[i] = classified.target =>
                   /\ classified.resClass <= i - 1
                   /\ (\A j \in 1 .. i - 1 : StrictlyBelow(Borders[j], classified.target))
                         => classified.resClass = i - 1
    /\ AscendingBorders =>
          \A t1 \in FloatValues, t2 \in FloatValues :
              ~t1.nan /\ ~t2.nan /\ t1.value <= t2.value
                  => GetTargetClass(t1) <= GetTargetClass(t2)

\* the target 2 was classified over the borders 1, 2, 3: it is in class 1,
\* with the border it equals above it
C35_Witness ==
    /\ Borders = <<Num(1), Num(2), Num(3)>>
    /\ classified = [target |-> Num(2), resClass |-> 1]

====
